---- MODULE Spec2Model ----
(***************************************************************************)
(* Model of the TimeSystem class of src/main.py: the unit hierarchy and    *)
(* its compiler, the exception model, the exact divisions, the format      *)
(* tokenizer and the two converters base_to_format / format_to_base.       *)
(*                                                                         *)
(* Decimal values are modelled digit by digit with the rounding of the     *)
(* default decimal context.  Strings are sequences of one-character        *)
(* strings, so that the tokenizer and the number formatting are computed.  *)
(***************************************************************************)
EXTENDS Integers, Sequences, FiniteSets, TLC

\* -------------------------------------------------------------------------
\* Natural numbers of any size, as sequences of decimal digits (most
\* significant first, no leading zero, <<>> for zero).  Python's int and the
\* coefficient of a decimal.Decimal are unbounded.

Abs(x) == IF x < 0 THEN -x ELSE x
Max2(a, b) == IF a >= b THEN a ELSE b
Min2(a, b) == IF a <= b THEN a ELSE b

Zeros(n) == [i \in 1..n |-> 0]

\* the digits of s from its first non-zero digit on
StripLead(s) ==
    IF \A i \in 1..Len(s) : s[i] = 0 THEN <<>>
    ELSE SubSeq(s, CHOOSE i \in 1..Len(s) : s[i] # 0 /\ \A j \in 1..(i - 1) : s[j] = 0, Len(s))

RECURSIVE NatToDigits(_)
NatToDigits(n) == IF n = 0 THEN <<>> ELSE Append(NatToDigits(n \div 10), n % 10)

RECURSIVE DigitsToNatFrom(_, _, _)
DigitsToNatFrom(s, i, acc) ==
    IF i > Len(s) THEN acc ELSE DigitsToNatFrom(s, i + 1, acc * 10 + s[i])

\* only for digit sequences of at most SmallLen digits
DigitsToNat(s) == DigitsToNatFrom(s, 1, 0)

\* Operands of at most SmallLen digits are handled with machine arithmetic
SmallLen == 8

\* -1, 0, 1 as a < b, a = b, a > b
CmpDigits(a, b) ==
    IF Len(a) # Len(b) THEN (IF Len(a) < Len(b) THEN -1 ELSE 1)
    ELSE IF a = b THEN 0
    ELSE LET m == CHOOSE i \in 1..Len(a) : a[i] # b[i] /\ \A j \in 1..(i - 1) : a[j] = b[j]
         IN  IF a[m] < b[m] THEN -1 ELSE 1

PadTo(s, n) == Zeros(n - Len(s)) \o s

\* The digit loops below run over the positions lo..hi of their operand;
\* a range is processed as two halves, one after the other, which keeps
\* the evaluation depth logarithmic in the number of digits.

\* positions hi down to lo; st = [carry, acc]
RECURSIVE AddRange(_, _, _, _, _)
AddRange(a, b, lo, hi, st) ==
    IF lo = hi
        THEN LET v == a[lo] + b[lo] + st.carry
             IN  [carry |-> v \div 10, acc |-> <<v % 10>> \o st.acc]
    ELSE LET mid == (lo + hi) \div 2
             right == AddRange(a, b, mid + 1, hi, st)
         IN  IF right.carry < 0 THEN right ELSE AddRange(a, b, lo, mid, right)

AddDigits(a, b) ==
    LET n == Max2(Len(a), Len(b))
        r == AddRange(PadTo(a, n), PadTo(b, n), 1, n, [carry |-> 0, acc |-> <<>>])
    IN  IF n = 0 THEN <<>>
        ELSE IF r.carry = 0 THEN StripLead(r.acc) ELSE <<r.carry>> \o r.acc

\* positions hi down to lo; st = [carry, acc], carry being the borrow
RECURSIVE SubRange(_, _, _, _, _)
SubRange(a, b, lo, hi, st) ==
    IF lo = hi
        THEN LET v == a[lo] - b[lo] - st.carry
             IN  IF v < 0 THEN [carry |-> 1, acc |-> <<v + 10>> \o st.acc]
                 ELSE [carry |-> 0, acc |-> <<v>> \o st.acc]
    ELSE LET mid == (lo + hi) \div 2
             right == SubRange(a, b, mid + 1, hi, st)
         IN  IF right.carry < 0 THEN right ELSE SubRange(a, b, lo, mid, right)

\* a - b for a >= b
SubDigits(a, b) ==
    LET n == Len(a)
    IN  IF n = 0 THEN <<>>
        ELSE StripLead(SubRange(a, PadTo(b, n), 1, n, [carry |-> 0, acc |-> <<>>]).acc)

\* positions hi down to lo; st = [carry, acc]
RECURSIVE MulSmallRange(_, _, _, _, _)
MulSmallRange(a, m, lo, hi, st) ==
    IF lo = hi
        THEN LET v == a[lo] * m + st.carry
             IN  [carry |-> v \div 10, acc |-> <<v % 10>> \o st.acc]
    ELSE LET mid == (lo + hi) \div 2
             right == MulSmallRange(a, m, mid + 1, hi, st)
         IN  IF right.carry < 0 THEN right ELSE MulSmallRange(a, m, lo, mid, right)

\* a * m for a machine number m of at most SmallLen digits
MulSmall(a, m) ==
    IF m = 0 \/ a = <<>> THEN <<>>
    ELSE LET r == MulSmallRange(a, m, 1, Len(a), [carry |-> 0, acc |-> <<>>])
         IN  StripLead(NatToDigits(r.carry) \o r.acc)

RECURSIVE MulDigits(_, _)
MulDigits(a, b) ==
    IF a = <<>> \/ b = <<>> THEN <<>>
    ELSE IF Len(b) <= SmallLen THEN MulSmall(a, DigitsToNat(b))
    ELSE IF Len(a) <= SmallLen THEN MulSmall(b, DigitsToNat(a))
    ELSE LET lo == StripLead(SubSeq(b, Len(b) - SmallLen + 1, Len(b)))
             hi == SubSeq(b, 1, Len(b) - SmallLen)
             ph == MulDigits(a, hi)
         IN  AddDigits(MulSmall(a, DigitsToNat(lo)),
                       IF ph = <<>> THEN <<>> ELSE ph \o Zeros(SmallLen))

\* positions lo up to hi; st = [rem, q], rem a machine number
RECURSIVE ShortDivRange(_, _, _, _, _)
ShortDivRange(a, m, lo, hi, st) ==
    IF lo = hi
        THEN LET v == st.rem * 10 + a[lo]
             IN  [rem |-> v % m, q |-> Append(st.q, v \div m)]
    ELSE LET mid == (lo + hi) \div 2
             left == ShortDivRange(a, m, lo, mid, st)
         IN  IF left.rem < 0 THEN left ELSE ShortDivRange(a, m, mid + 1, hi, left)

\* how many times b goes into rem, rem < 10 * b
RECURSIVE SubCount(_, _, _)
SubCount(rem, b, k) ==
    IF CmpDigits(rem, b) < 0 THEN [k |-> k, rem |-> rem]
    ELSE SubCount(SubDigits(rem, b), b, k + 1)

\* positions lo up to hi; st = [rem, q], rem a digit sequence
RECURSIVE LongDivRange(_, _, _, _, _)
LongDivRange(a, b, lo, hi, st) ==
    IF lo = hi
        THEN LET sc == SubCount(StripLead(Append(st.rem, a[lo])), b, 0)
             IN  [rem |-> sc.rem, q |-> Append(st.q, sc.k)]
    ELSE LET mid == (lo + hi) \div 2
             left == LongDivRange(a, b, lo, mid, st)
         IN  IF Len(left.q) < 0 THEN left ELSE LongDivRange(a, b, mid + 1, hi, left)

\* divmod(a, b) for b # 0: the quotient q and the remainder r
DivModDigits(a, b) ==
    IF CmpDigits(a, b) < 0 THEN [q |-> <<>>, r |-> a]
    ELSE IF Len(b) <= SmallLen
        THEN LET d == ShortDivRange(a, DigitsToNat(b), 1, Len(a), [rem |-> 0, q |-> <<>>])
             IN  [q |-> StripLead(d.q), r |-> NatToDigits(d.rem)]
    ELSE LET d == LongDivRange(a, b, 1, Len(a), [rem |-> <<>>, q |-> <<>>])
         IN  [q |-> StripLead(d.q), r |-> d.rem]

\* positions lo up to hi of a, folded into the residue modulo m
RECURSIVE ModSmallRange(_, _, _, _, _)
ModSmallRange(a, m, lo, hi, rem) ==
    IF lo = hi THEN (rem * 10 + a[lo]) % m
    ELSE LET mid == (lo + hi) \div 2
             left == ModSmallRange(a, m, lo, mid, rem)
         IN  IF left < 0 THEN left ELSE ModSmallRange(a, m, mid + 1, hi, left)

\* -------------------------------------------------------------------------
\* decimal.Decimal under the default context: a sign s, a coefficient c and
\* an exponent e, the value being s * c * 10^e.  Values are kept normalized
\* (no trailing zero in c), so that numeric equality is equality.  Every
\* arithmetic result is rounded to DecimalPrec significant digits,
\* ROUND_HALF_EVEN.

DecimalPrec == 28

DZero == [s |-> 1, c |-> <<>>, e |-> 0]

\* the number of zeros that end the non-zero coefficient c
TrailingZeros(c) ==
    Len(c) - (CHOOSE i \in 1..Len(c) : c[i] # 0 /\ \A j \in (i + 1)..Len(c) : c[j] = 0)

DNorm(s, c0, e) ==
    LET c == StripLead(c0)
    IN  IF c = <<>> THEN DZero
        ELSE LET z == TrailingZeros(c)
             IN  [s |-> s, c |-> SubSeq(c, 1, Len(c) - z), e |-> e + z]

\* Context rounding of s * c * 10^e; sticky tells that a non-zero part
\* below the last digit of c was already dropped
DRound(s, c0, e, sticky) ==
    LET c == StripLead(c0)
    IN  IF Len(c) <= DecimalPrec THEN DNorm(s, c, e)
        ELSE LET keep == SubSeq(c, 1, DecimalPrec)
                 f == c[DecimalPrec + 1]
                 restnz == sticky \/ \E i \in (DecimalPrec + 2)..Len(c) : c[i] # 0
                 up == \/ f > 5
                       \/ f = 5 /\ restnz
                       \/ f = 5 /\ ~restnz /\ keep[DecimalPrec] % 2 = 1
             IN  DNorm(s, IF up THEN AddDigits(keep, <<1>>) ELSE keep,
                       e + (Len(c) - DecimalPrec))

\* Decimal(n) for a machine integer n
Dec(n) == DNorm(IF n < 0 THEN -1 ELSE 1, NatToDigits(Abs(n)), 0)

DIsZero(x) == x.c = <<>>
DIsNeg(x) == x.s = -1 /\ x.c # <<>>

DNeg(x) == IF x.c = <<>> THEN x ELSE [x EXCEPT !.s = -x.s]

\* the coefficient of x at the exponent e <= x.e
Scaled(x, e) == IF x.c = <<>> THEN <<>> ELSE x.c \o Zeros(x.e - e)

DAdd(x, y) ==
    LET e == Min2(x.e, y.e)
        X == Scaled(x, e)
        Y == Scaled(y, e)
    IN  IF x.s = y.s THEN DRound(x.s, AddDigits(X, Y), e, FALSE)
        ELSE IF CmpDigits(X, Y) >= 0 THEN DRound(x.s, SubDigits(X, Y), e, FALSE)
        ELSE DRound(y.s, SubDigits(Y, X), e, FALSE)

DSub(x, y) == DAdd(x, DNeg(y))

DMul(x, y) == DRound(x.s * y.s, MulDigits(x.c, y.c), x.e + y.e, FALSE)

\* x / y for y # 0 (Decimal.__truediv__)
DDiv(x, y) ==
    IF x.c = <<>> THEN DZero
    ELSE LET shift == Len(y.c) - Len(x.c) + DecimalPrec + 1
             dm == IF shift >= 0 THEN DivModDigits(x.c \o Zeros(shift), y.c)
                   ELSE DivModDigits(x.c, y.c \o Zeros(-shift))
         IN  DRound(x.s * y.s, dm.q, x.e - y.e - shift, dm.r # <<>>)

\* x % y for y # 0 (Decimal.__mod__): the remainder has the sign of x
DMod(x, y) ==
    LET e == Min2(x.e, y.e)
        dm == DivModDigits(Scaled(x, e), Scaled(y, e))
    IN  DRound(x.s, dm.r, e, FALSE)

\* int(x): truncation toward zero
DInt(x) ==
    IF x.e >= 0 THEN x
    ELSE IF Len(x.c) <= -x.e THEN DZero
    ELSE DNorm(x.s, SubSeq(x.c, 1, Len(x.c) + x.e), 0)

DLt(x, y) == DIsNeg(DSub(x, y))
DLe(x, y) == ~DIsNeg(DSub(y, x))

\* n % m for a Python int n >= 0 given as a Decimal and a machine integer m > 0
IntModSmall(n, m) ==
    IF n.c = <<>> THEN 0 ELSE ModSmallRange(Scaled(n, 0), m, 1, Len(n.c) + n.e, 0)

\* -------------------------------------------------------------------------
\* Python values

\* None where a name or a format string is expected: no name is this sequence,
\* the characters of a name being strings of length one
None == <<"None">>
\* None where a Unit object is expected (units are referred to by position)
NoUnit == 0
\* an attribute that __init__ does not set: a Unit reference, a Decimal
NoAttrUnit == -1
NoAttr == [s |-> 0, c |-> <<>>, e |-> 0]
\* the value of a call that returns nothing
Returned == "None"


EmptyDict == [x \in {} |-> 0]

DictPut(d, k, v) == [x \in (DOMAIN d) \cup {k} |-> IF x = k THEN v ELSE d[x]]

Range(s) == {s[i] : i \in DOMAIN s}

\* -------------------------------------------------------------------------
\* The TimeSystem object

\* TimeSystem.__init__
NewTimeSystem ==
    [units |-> <<>>, exceptions |-> <<>>, exact_divs |-> <<>>,
     repeating_divs |-> <<>>, compiled |-> FALSE,
     units_by_name |-> EmptyDict, exceptions_by_name |-> EmptyDict,
     exact_divs_by_name |-> EmptyDict, repeating_divs_by_name |-> EmptyDict,
     base_unit |-> NoUnit,
     parent_unit |-> <<>>, children |-> <<>>, working |-> <<>>]

\* Unit.__init__: the derived attributes are not set before compile()
Unit(name, conversion_factor, parent_unit_name) ==
    [name |-> name, conversion_factor |-> conversion_factor,
     parent_unit_name |-> parent_unit_name]

TimeException(name, interval_amount, interval_amount_unit_name, add_amount, add_amount_unit_name) ==
    [name |-> name, interval_amount |-> interval_amount,
     interval_amount_unit_name |-> interval_amount_unit_name,
     add_amount |-> add_amount, add_amount_unit_name |-> add_amount_unit_name]

ExactDivision(name, name_of_unit_dividing, name_of_unit_dividing_into, division_defs, division_corrections) ==
    [name |-> name, name_of_unit_dividing |-> name_of_unit_dividing,
     name_of_unit_dividing_into |-> name_of_unit_dividing_into,
     div_defs |-> division_defs, div_corrections |-> division_corrections]

\* The asserts of ExactDivision.__init__; division_defs and
\* division_corrections are sequences here, never None
ExactDivisionArgsOk(name, name_of_unit_dividing, name_of_unit_dividing_into, division_defs, division_corrections) ==
    /\ name # None
    /\ name_of_unit_dividing # None
    /\ name_of_unit_dividing_into # None
    /\ Len(division_defs) >= 2

\* An operation's outcome: the TimeSystem afterwards, whether it returned
\* normally, and the value it returned
Outcome(ts, ok, val) == [ts |-> ts, ok |-> ok, val |-> val]

\* add_unit
AddUnit(ts, name, conversion_factor, parent_unit_name) ==
    IF name \in {ts.units[i].name : i \in DOMAIN ts.units}
        THEN Outcome(ts, FALSE, "AssertionError")
    ELSE IF ~((conversion_factor.s = 1 /\ conversion_factor.c # <<>>))
        THEN Outcome(ts, FALSE, "AssertionError")
    ELSE Outcome([ts EXCEPT !.units = Append(@, Unit(name, conversion_factor, parent_unit_name)),
                            !.parent_unit = Append(@, NoAttrUnit),
                            !.children = Append(@, <<>>),
                            !.working = Append(@, NoAttr),
                            !.compiled = FALSE], TRUE, Returned)

\* add_exception (TimeException.__init__ asserts interval_amount > 0)
AddException(ts, name, interval_amount, interval_amount_unit_name, add_amount, add_amount_unit_name) ==
    IF ~((interval_amount.s = 1 /\ interval_amount.c # <<>>))
        THEN Outcome(ts, FALSE, "AssertionError")
    ELSE Outcome([ts EXCEPT !.exceptions = Append(@, TimeException(name, interval_amount,
                                interval_amount_unit_name, add_amount, add_amount_unit_name)),
                            !.compiled = FALSE], TRUE, Returned)

\* add_exact_division
AddExactDivision(ts, name, name_of_unit_dividing, name_of_unit_dividing_into, division_defs, division_corrections) ==
    IF ~ExactDivisionArgsOk(name, name_of_unit_dividing, name_of_unit_dividing_into, division_defs, division_corrections)
        THEN Outcome(ts, FALSE, "AssertionError")
    ELSE Outcome([ts EXCEPT !.exact_divs = Append(@, ExactDivision(name, name_of_unit_dividing,
                                name_of_unit_dividing_into, division_defs, division_corrections)),
                            !.compiled = FALSE], TRUE, Returned)

\* RepeatingDivision.__init__ begins with super().__init__(), a call of
\* ExactDivision.__init__ without its five required arguments: it raises
\* TypeError before any attribute is set.
RepeatingDivisionInitRaises == TRUE

\* add_repeating_division: the constructor call is evaluated first; the
\* append and the reset of the compiled flag only happen if it returns
AddRepeatingDivision(ts, name, name_of_unit_in, division_defs) ==
    IF RepeatingDivisionInitRaises
        THEN Outcome(ts, FALSE, "TypeError")
    ELSE IF name = None \/ name_of_unit_in = None
        THEN Outcome(ts, FALSE, "AssertionError")
    ELSE Outcome([ts EXCEPT !.repeating_divs = Append(@, [name |-> name,
                                name_of_unit_in |-> name_of_unit_in,
                                division_defs |-> division_defs]),
                            !.compiled = FALSE], TRUE, Returned)

\* -------------------------------------------------------------------------
\* Unit methods

RecursionError == "RecursionError"

RECURSIVE LineageRec(_, _, _)
LineageRec(ts, u, fuel) ==
    IF fuel = 0 THEN RecursionError
    ELSE IF ts.parent_unit[u] = NoUnit THEN <<u>>
    ELSE LET line == LineageRec(ts, ts.parent_unit[u], fuel - 1)
         IN  IF line = RecursionError THEN RecursionError ELSE Append(line, u)

\* Unit.get_lineage: the units from the base unit to u; a parent chain that
\* never reaches a parentless unit exhausts the interpreter's recursion limit
get_lineage(ts, u) == LineageRec(ts, u, Len(ts.units))

Reverse(s) == [i \in 1..Len(s) |-> s[Len(s) + 1 - i]]

\* Unit.to_base raises when the parent chain never ends, and when a unit of
\* the lineage above the base unit has no working factor yet (_check_has)
ToBaseRaises(ts, u) ==
    \/ get_lineage(ts, u) = RecursionError
    \/ \E i \in 2..Len(get_lineage(ts, u)) : ts.working[get_lineage(ts, u)[i]] = NoAttr

\* Unit.to_base, for a unit with ~ToBaseRaises
RECURSIVE to_base(_, _, _)
to_base(ts, u, x) ==
    IF ts.parent_unit[u] = NoUnit THEN x
    ELSE DMul(to_base(ts, ts.parent_unit[u], x), ts.working[u])

\* Unit.from_base divides by the working factor of every unit of the
\* lineage but the base unit: Decimal raises on a zero divisor
FromBaseRaises(ts, u) ==
    \/ ToBaseRaises(ts, u)
    \/ \E i \in 2..Len(get_lineage(ts, u)) : DIsZero(ts.working[get_lineage(ts, u)[i]])

\* Unit.from_base, for a unit with ~FromBaseRaises
RECURSIVE from_base(_, _, _)
from_base(ts, u, x) ==
    IF ts.parent_unit[u] = NoUnit THEN x
    ELSE DDiv(from_base(ts, ts.parent_unit[u], x), ts.working[u])

\* -------------------------------------------------------------------------
\* compile

UnitNames(ts) == [i \in 1..Len(ts.units) |-> ts.units[i].name]
ExceptionNames(ts) == [i \in 1..Len(ts.exceptions) |-> ts.exceptions[i].name]
ExactDivNames(ts) == [i \in 1..Len(ts.exact_divs) |-> ts.exact_divs[i].name]
RepeatingDivNames(ts) == [i \in 1..Len(ts.repeating_divs) |-> ts.repeating_divs[i].name]

\* the first position whose name already occurred before it, 0 if none:
\* where the loop `assert not (x.name in by_name)` stops
FirstDup(names) ==
    IF \A i \in 1..Len(names) : \A j \in 1..(i - 1) : names[j] # names[i] THEN 0
    ELSE CHOOSE i \in 1..Len(names) :
            /\ \E j \in 1..(i - 1) : names[j] = names[i]
            /\ \A k \in 1..(i - 1) : \A j \in 1..(k - 1) : names[j] # names[k]

\* the dictionary filled by the first n iterations of such a loop
ByName(names, n) ==
    [nm \in {names[i] : i \in 1..n} |-> CHOOSE i \in 1..n : names[i] = nm]

Filled(names) == IF FirstDup(names) = 0 THEN Len(names) ELSE FirstDup(names) - 1

\* lines 611-617 without the loop of lines 618-620: a compile() that does
\* not empty the children lists of a system compiled before
CompileResetKeepsChildren(ts) ==
    [ts EXCEPT !.units_by_name = EmptyDict, !.exceptions_by_name = EmptyDict,
               !.exact_divs_by_name = EmptyDict, !.repeating_divs_by_name = EmptyDict,
               !.base_unit = NoUnit]

\* lines 611-620: clean everything
CompileReset(ts) ==
    [ts EXCEPT !.units_by_name = EmptyDict, !.exceptions_by_name = EmptyDict,
               !.exact_divs_by_name = EmptyDict, !.repeating_divs_by_name = EmptyDict,
               !.base_unit = NoUnit,
               !.parent_unit = [i \in 1..Len(ts.units) |-> NoUnit],
               !.children = [i \in 1..Len(ts.units) |-> <<>>]]

\* lines 622-640: the four name indexes, in the order units, exceptions,
\* repeating divisions, exact divisions; a duplicate stops at its loop
CompileIndex(ts) ==
    IF FirstDup(UnitNames(ts)) # 0
        THEN Outcome([ts EXCEPT !.units_by_name = ByName(UnitNames(ts), Filled(UnitNames(ts)))],
                     FALSE, "AssertionError")
    ELSE IF FirstDup(ExceptionNames(ts)) # 0
        THEN Outcome([ts EXCEPT !.units_by_name = ByName(UnitNames(ts), Len(ts.units)),
                                !.exceptions_by_name = ByName(ExceptionNames(ts), Filled(ExceptionNames(ts)))],
                     FALSE, "AssertionError")
    ELSE IF FirstDup(RepeatingDivNames(ts)) # 0
        THEN Outcome([ts EXCEPT !.units_by_name = ByName(UnitNames(ts), Len(ts.units)),
                                !.exceptions_by_name = ByName(ExceptionNames(ts), Len(ts.exceptions)),
                                !.repeating_divs_by_name = ByName(RepeatingDivNames(ts), Filled(RepeatingDivNames(ts)))],
                     FALSE, "AssertionError")
    ELSE Outcome([ts EXCEPT !.units_by_name = ByName(UnitNames(ts), Len(ts.units)),
                            !.exceptions_by_name = ByName(ExceptionNames(ts), Len(ts.exceptions)),
                            !.repeating_divs_by_name = ByName(RepeatingDivNames(ts), Len(ts.repeating_divs)),
                            !.exact_divs_by_name = ByName(ExactDivNames(ts), Filled(ExactDivNames(ts)))],
                 FirstDup(ExactDivNames(ts)) = 0,
                 IF FirstDup(ExactDivNames(ts)) = 0 THEN Returned ELSE "AssertionError")

\* the iteration of the hierarchy loop (lines 643-652) at unit i raises
HierarchyRaisesAt(ts, i) ==
    IF ts.units[i].parent_unit_name # None
        THEN ts.units[i].parent_unit_name \notin DOMAIN ts.units_by_name
    ELSE \E j \in 1..(i - 1) : ts.units[j].parent_unit_name = None

\* lines 642-652: parent links, the base unit, and every unit appended to
\* the children of its parent
CompileHierarchy(ts) ==
    LET n == Len(ts.units)
        bad == {i \in 1..n : HierarchyRaisesAt(ts, i)}
        done == IF bad = {} THEN n ELSE (CHOOSE i \in bad : \A j \in bad : i <= j) - 1
        pidx(i) == ts.units_by_name[ts.units[i].parent_unit_name]
        bases == {i \in 1..done : ts.units[i].parent_unit_name = None}
        t1 == [ts EXCEPT
                !.parent_unit = [i \in 1..n |->
                    IF i <= done /\ ts.units[i].parent_unit_name # None THEN pidx(i) ELSE NoUnit],
                !.children = [p \in 1..n |->
                    ts.children[p] \o SelectSeq([i \in 1..done |-> i],
                              LAMBDA i : ts.units[i].parent_unit_name # None /\ pidx(i) = p)],
                !.base_unit = IF bases = {} THEN NoUnit ELSE CHOOSE i \in bases : TRUE]
    IN  Outcome(t1, bad = {}, IF bad = {} THEN Returned ELSE "AssertionError")

\* ExactDivision.name_in_division_defs
name_in_division_defs(div, name) == \E i \in 1..Len(div.div_defs) : div.div_defs[i][1] = name

\* name_in_div_corrections with found = True before the loop
CorrectionAlwaysFound(div, name) == TRUE

\* ExactDivision.name_in_div_corrections
name_in_div_corrections(div, name) ==
    \E i \in 1..Len(div.div_corrections) : div.div_corrections[i][1] = name

\* the reversed lineage with u still in it: the pop(0) of lines 667 and 700
\* forgotten
LineageWithSelf(ts, u) == Reverse(get_lineage(ts, u))

\* the lineage of u without u itself, nearest unit first
LineageBelow(ts, u) == Tail(Reverse(get_lineage(ts, u)))

\* lines 656-682: every check of the loop over the ExactDivisions passes
ExactDivsValid(ts) ==
    \A d \in 1..Len(ts.exact_divs) :
        LET div == ts.exact_divs[d]
        IN  /\ div.name_of_unit_dividing \in DOMAIN ts.units_by_name
            /\ div.name_of_unit_dividing_into \in DOMAIN ts.units_by_name
            /\ get_lineage(ts, ts.units_by_name[div.name_of_unit_dividing]) # RecursionError
            /\ \A x \in 1..Len(ts.exceptions) :
                LET exception == ts.exceptions[x]
                IN  /\ exception.add_amount_unit_name \in DOMAIN ts.units_by_name
                    /\ (ts.units_by_name[exception.add_amount_unit_name]
                            \in Range(LineageBelow(ts, ts.units_by_name[div.name_of_unit_dividing])))
                        => name_in_div_corrections(div, exception.name)
            /\ \A c \in 1..Len(div.div_corrections) :
                name_in_division_defs(div, div.div_corrections[c][2])

\* lines 684-686
RepeatingDivsValid(ts) ==
    \A d \in 1..Len(ts.repeating_divs) :
        ts.repeating_divs[d].name_of_unit_in \in DOMAIN ts.units_by_name

\* lines 692-693
CompileInitialFactors(ts) ==
    [ts EXCEPT !.working = [i \in 1..Len(ts.units) |-> ts.units[i].conversion_factor]]

\* lines 695-702: the unit added by an exception lies on the lineage of its
\* interval unit, below it
ExceptionsValid(ts) ==
    \A x \in 1..Len(ts.exceptions) :
        LET exception == ts.exceptions[x]
        IN  /\ exception.interval_amount_unit_name \in DOMAIN ts.units_by_name
            /\ exception.add_amount_unit_name \in DOMAIN ts.units_by_name
            /\ get_lineage(ts, ts.units_by_name[exception.interval_amount_unit_name]) # RecursionError
            /\ ts.units_by_name[exception.add_amount_unit_name]
                \in Range(LineageBelow(ts, ts.units_by_name[exception.interval_amount_unit_name]))

\* lines 726-734: one curr_unit in base units if the exception always fired;
\* lin is [curr_unit, ..., base_unit]
RECURSIVE WithException(_, _, _, _, _)
WithException(ts, exception, lin, i, curr_num) ==
    IF i > Len(lin) THEN curr_num
    ELSE LET added == IF ts.units[lin[i]].name = exception.add_amount_unit_name
                      THEN DAdd(curr_num, exception.add_amount) ELSE curr_num
         IN  WithException(ts, exception, lin, i + 1, DMul(added, ts.working[lin[i]]))

\* lines 741-743
RECURSIVE SumDecimals(_, _, _)
SumDecimals(difs, i, acc) ==
    IF i > Len(difs) THEN acc ELSE SumDecimals(difs, i + 1, DAdd(acc, difs[i]))

\* line 723: the exceptions whose interval is counted in curr_unit
RelExceptions(ts, curr_unit) ==
    SelectSeq(ts.exceptions, LAMBDA e : e.interval_amount_unit_name = ts.units[curr_unit].name)

\* lines 724-739: what each exception adds to one curr_unit, in base units
ExceptionDifs(ts, rel_exceptions, lin, base_amt) ==
    [k \in 1..Len(rel_exceptions) |->
        DDiv(DSub(WithException(ts, rel_exceptions[k], lin, 1, Dec(1)), base_amt),
             rel_exceptions[k].interval_amount)]

\* lines 741-746: the factor, from the base amount of one curr_unit
FactorFrom(ts, curr_unit, base_amt) ==
    from_base(ts, ts.parent_unit[curr_unit],
        DAdd(base_amt,
             SumDecimals(ExceptionDifs(ts, RelExceptions(ts, curr_unit),
                                       Reverse(get_lineage(ts, curr_unit)), base_amt),
                         1, DZero)))

\* lines 713-746: the working conversion factor of curr_unit
WorkingFactor(ts, curr_unit) ==
    IF ts.parent_unit[curr_unit] = NoUnit THEN Dec(1)
    ELSE FactorFrom(ts, curr_unit, to_base(ts, curr_unit, Dec(1)))

\* lines 707-748: the stack traversal from the base unit
RECURSIVE CompileTraverse(_, _)
CompileTraverse(ts, stack) ==
    IF stack = <<>> THEN Outcome(ts, TRUE, Returned)
    ELSE IF /\ ts.parent_unit[stack[Len(stack)]] # NoUnit
            /\ FromBaseRaises(ts, ts.parent_unit[stack[Len(stack)]])
        THEN Outcome(ts, FALSE, "DivisionByZero")
    ELSE CompileTraverse(
            [ts EXCEPT !.working[stack[Len(stack)]] = WorkingFactor(ts, stack[Len(stack)])],
            SubSeq(stack, 1, Len(stack) - 1) \o ts.children[stack[Len(stack)]])

\* line 750, after the traversal
CompileFinish(s5) ==
    IF ~s5.ok THEN s5
    ELSE Outcome([s5.ts EXCEPT !.compiled = TRUE], TRUE, Returned)

\* lines 695-750, after the initial factors
CompileFactors(s4) ==
    IF ~ExceptionsValid(s4) THEN Outcome(s4, FALSE, "AssertionError")
    ELSE CompileFinish(CompileTraverse(s4,
            IF s4.base_unit = NoUnit THEN <<>> ELSE <<s4.base_unit>>))

\* lines 656-750, after the compiled flag is set
CompileValidate(s3) ==
    IF ~ExactDivsValid(s3) THEN Outcome(s3, FALSE, "AssertionError")
    ELSE IF ~RepeatingDivsValid(s3) THEN Outcome(s3, FALSE, "AssertionError")
    ELSE CompileFactors(CompileInitialFactors(s3))

\* line 654: the compiled flag is set here, before the validations
CompileSetFlag(s2) ==
    IF ~s2.ok THEN s2
    ELSE CompileValidate([s2.ts EXCEPT !.compiled = TRUE])

\* lines 642-750, after the name indexes
CompileLink(s1) ==
    IF ~s1.ok THEN s1
    ELSE CompileSetFlag(CompileHierarchy(s1.ts))

\* compile(): the stages in the order of the code
Compile(ts) == CompileLink(CompileIndex(CompileReset(ts)))

\* -------------------------------------------------------------------------
\* Strings: sequences of one-character strings

DigitChars == <<"0", "1", "2", "3", "4", "5", "6", "7", "8", "9">>

IsDigitChar(ch) == \E d \in 1..10 : DigitChars[d] = ch

DigitOf(ch) == (CHOOSE d \in 1..10 : DigitChars[d] = ch) - 1

\* str(n) for a Python int n, held as a Decimal of integral value
IntStr(n) ==
    IF n.c = <<>> THEN <<"0">>
    ELSE (IF n.s = -1 THEN <<"-">> ELSE <<>>)
            \o [i \in 1..Len(n.c) |-> DigitChars[n.c[i] + 1]]
            \o [i \in 1..n.e |-> "0"]

\* the token has the form digits [ "." digits ]
IsNumberToken(tok) ==
    /\ tok # <<>>
    /\ IsDigitChar(tok[1])
    /\ \A i \in 1..Len(tok) : IsDigitChar(tok[i]) \/ tok[i] = "."
    /\ Cardinality({i \in 1..Len(tok) : tok[i] = "."}) <= 1

\* Decimal(tok) for a number token: the construction is exact; on any other
\* token Decimal raises
ParseDecimal(tok) ==
         LET dots == {i \in 1..Len(tok) : tok[i] = "."}
             digs == SelectSeq(tok, IsDigitChar)
             frac == IF dots = {} THEN 0 ELSE Len(tok) - (CHOOSE i \in dots : TRUE)
         IN  DNorm(1, [i \in 1..Len(digs) |-> DigitOf(digs[i])], -frac)

\* int(tok) accepts digits only, and raises ValueError otherwise
IsIntToken(tok) == IsNumberToken(tok) /\ \A i \in 1..Len(tok) : tok[i] # "."

ParseInt(tok) == ParseDecimal(tok)

\* regex_chars
regex_chars == {"\\", "|", "[", "]", "{", "}", ".", "^", "$", "*", "+", "(", ")"}

RECURSIVE regex_escape_str(_)
regex_escape_str(str) ==
    IF str = <<>> THEN <<>>
    ELSE (IF str[1] \in regex_chars THEN <<"\\", str[1]>> ELSE <<str[1]>>)
            \o regex_escape_str(Tail(str))

IsPrefixAt(lit, string, p) ==
    /\ p + Len(lit) - 1 <= Len(string)
    /\ \A k \in 1..Len(lit) : string[p + k - 1] = lit[k]

\* _get_names_regex: the alternatives in the order units, ExactDivisions,
\* RepeatingDivisions, hints.  Every name is escaped twice (line 771 and
\* line 782), so an alternative matches the once-escaped name literally.
NameAlternatives(ts, hints) ==
    LET names == SelectSeq(UnitNames(ts), LAMBDA n : n \in DOMAIN ts.units_by_name)
                 \o SelectSeq(ExactDivNames(ts), LAMBDA n : n \in DOMAIN ts.exact_divs_by_name)
                 \o SelectSeq(RepeatingDivNames(ts), LAMBDA n : n \in DOMAIN ts.repeating_divs_by_name)
                 \o hints
    IN  [i \in 1..Len(names) |-> regex_escape_str(names[i])]

\* the length of the match of (alt1|alt2|...) at position p, -1 if none:
\* the first alternative that matches wins
NamesMatchLen(alts, string, p) ==
    IF \A i \in 1..Len(alts) : ~IsPrefixAt(alts[i], string, p) THEN -1
    ELSE Len(alts[CHOOSE i \in 1..Len(alts) :
                    /\ IsPrefixAt(alts[i], string, p)
                    /\ \A j \in 1..(i - 1) : ~IsPrefixAt(alts[j], string, p)])

\* the length of the match of [0-9]+\.{0,1}[0-9]* at position p, -1 if none
NumberMatchLen(string, p) ==
    IF ~IsDigitChar(string[p]) THEN -1
    ELSE LET n == Len(string)
             run(q) == IF \A k \in q..n : IsDigitChar(string[k]) THEN n + 1
                       ELSE CHOOSE k \in q..n : ~IsDigitChar(string[k])
                                                /\ \A j \in q..(k - 1) : IsDigitChar(string[j])
             e1 == run(p)
             e2 == IF e1 <= n /\ string[e1] = "." THEN e1 + 1 ELSE e1
             e3 == IF e2 <= n THEN run(e2) ELSE e2
         IN  e3 - p

\* the loop of split_inclusive over the matches, ml[p] being the length of
\* the match at p; matches are not empty
RECURSIVE SplitRec(_, _, _, _)
SplitRec(string, ml, curr_index, ret_list) ==
    LET starts == {p \in (curr_index + 1)..Len(string) : ml[p] > 0}
    IN  IF starts = {}
            THEN IF curr_index < Len(string)
                    THEN Append(ret_list, SubSeq(string, curr_index + 1, Len(string)))
                 ELSE ret_list
        ELSE LET st == CHOOSE p \in starts : \A q \in starts : p <= q
                 before == IF curr_index + 1 < st
                           THEN Append(ret_list, SubSeq(string, curr_index + 1, st - 1))
                           ELSE ret_list
             IN  SplitRec(string, ml, st + ml[st] - 1,
                          Append(before, SubSeq(string, st, st + ml[st] - 1)))

\* split_inclusive for a pattern given by its match lengths
split_inclusive(string, ml) ==
    IF \A p \in 1..Len(string) : ml[p] <= 0 THEN <<string>>
    ELSE SplitRec(string, ml, 0, <<>>)

\* split_inclusive('[0-9]+\.{0,1}[0-9]*', string)
SplitNumbers(string) ==
    split_inclusive(string, [p \in 1..Len(string) |-> NumberMatchLen(string, p)])

\* _split_date_format, for a system that declares at least one name
\* (with no name at all the pattern is "()" and every match is empty)
split_date_format(ts, date_format, hints) ==
    LET alts == NameAlternatives(ts, hints)
    IN  IF alts = <<>>
            THEN <<<<>>>> \o [i \in 1..(2 * Len(date_format)) |->
                                IF i % 2 = 1 THEN <<date_format[(i + 1) \div 2]>> ELSE <<>>]
        ELSE split_inclusive(date_format,
                [p \in 1..Len(date_format) |-> NamesMatchLen(alts, date_format, p)])

\* -------------------------------------------------------------------------
\* Conversions

\* a _check_compiled that lets every call through
AlwaysCompiled(ts) == TRUE

\* _check_compiled: the assert passes
check_compiled(ts) == ts.compiled

\* what a conversion returns: ok and the value, or not ok and the error
Ret(val) == [ok |-> TRUE, val |-> val]
Raise(err) == [ok |-> FALSE, val |-> err]

\* a Python int small enough for machine arithmetic
ToMachine(n) == n.s * DigitsToNat(Scaled(n, 0))

\* n % m for Python ints, m > 0: the result is never negative
PyIntMod(n, m) ==
    LET r == IntModSmall(n, m)
    IN  IF n.s = -1 /\ r # 0 THEN m - r ELSE r

\* ExceptionApplies with the corrections forgotten: the offsets are the
\* counts of the definitions at every date
ExceptionNeverApplies(ts, exception, date_in_base_unit) == FALSE

\* line 844: the exception applies to the interval unit that holds the date
ExceptionApplies(ts, exception, date_in_base_unit) ==
    LET interval_unit == ts.units_by_name[exception.interval_amount_unit_name]
        interval_amt == ToMachine(DInt(exception.interval_amount))
    IN  0 = PyIntMod(DInt(from_base(ts, interval_unit, date_in_base_unit)), interval_amt)

\* _get_exact_div_offsets raises: an assert of a lookup fails, or one of the
\* conversions it makes raises
ExactDivOffsetsRaise(ts, date_in_base_unit, div_name) ==
    \/ div_name \notin DOMAIN ts.exact_divs_by_name
    \/ LET div == ts.exact_divs[ts.exact_divs_by_name[div_name]]
       IN  \/ div.name_of_unit_dividing \notin DOMAIN ts.units_by_name
           \/ div.name_of_unit_dividing_into \notin DOMAIN ts.units_by_name
           \/ ToBaseRaises(ts, ts.units_by_name[div.name_of_unit_dividing_into])
           \/ \E c \in 1..Len(div.div_corrections) :
                \/ div.div_corrections[c][1] \notin DOMAIN ts.exceptions_by_name
                \/ LET exception == ts.exceptions[ts.exceptions_by_name[div.div_corrections[c][1]]]
                   IN  \/ exception.interval_amount_unit_name \notin DOMAIN ts.units_by_name
                       \/ DIsZero(DInt(exception.interval_amount))
                       \/ FromBaseRaises(ts, ts.units_by_name[exception.interval_amount_unit_name])
                       \/ /\ ExceptionApplies(ts, exception, date_in_base_unit)
                          /\ \/ exception.add_amount_unit_name \notin DOMAIN ts.units_by_name
                             \/ ToBaseRaises(ts, ts.units_by_name[exception.add_amount_unit_name])

\* lines 836-849: the corrections, one after the other
RECURSIVE ApplyCorrections(_, _, _, _, _)
ApplyCorrections(ts, date_in_base_unit, div, c, offsets) ==
    IF c > Len(div.div_corrections) THEN offsets
    ELSE LET div_c == div.div_corrections[c]
             exception == ts.exceptions[ts.exceptions_by_name[div_c[1]]]
         IN  IF ExceptionApplies(ts, exception, date_in_base_unit)
                THEN LET add == to_base(ts, ts.units_by_name[exception.add_amount_unit_name],
                                        exception.add_amount)
                     IN  ApplyCorrections(ts, date_in_base_unit, div, c + 1,
                            [i \in 1..Len(offsets) |->
                                IF div.div_defs[i][1] = div_c[2] THEN DAdd(offsets[i], add)
                                ELSE offsets[i]])
             ELSE ApplyCorrections(ts, date_in_base_unit, div, c + 1, offsets)

\* _get_exact_div_offsets (the offsets; the names are div.div_defs[i][1])
get_exact_div_offsets(ts, date_in_base_unit, div_name) ==
    LET div == ts.exact_divs[ts.exact_divs_by_name[div_name]]
        unit_dividing_into == ts.units_by_name[div.name_of_unit_dividing_into]
    IN  ApplyCorrections(ts, date_in_base_unit, div, 1,
            [i \in 1..Len(div.div_defs) |-> to_base(ts, unit_dividing_into, Dec(div.div_defs[i][2]))])

\* the elements of seq, each at its first occurrence only
FirstOccurrences(seq) ==
    LET keep == {i \in 1..Len(seq) : \A j \in 1..(i - 1) : seq[j] # seq[i]}
    IN  SelectSeq([i \in 1..Len(seq) |-> <<i, seq[i]>>], LAMBDA p : p[1] \in keep)

Seconds(pairs) == [i \in 1..Len(pairs) |-> pairs[i][2]]

\* _sort_so_smallest_units_first, the sort key
sort_key(ts, u) == ts.working[u]

\* sorted(units, reverse=True, key=_sort_so_smallest_units_first): the sort
\* is stable, units of equal key keep their order
SortLargestFirst(ts, units) ==
    LET pos(i) == Cardinality({j \in 1..Len(units) : DLt(sort_key(ts, units[i]), sort_key(ts, units[j]))})
                  + Cardinality({j \in 1..(i - 1) : sort_key(ts, units[j]) = sort_key(ts, units[i])})
                  + 1
    IN  [k \in 1..Len(units) |-> units[CHOOSE i \in 1..Len(units) : pos(i) = k]]

\* the unit cannot be decomposed: its sort key is missing, a conversion
\* raises, or one of it is zero base units (the modulo raises)
UnitRaises(ts, u) ==
    \/ ts.working[u] = NoAttr
    \/ FromBaseRaises(ts, u)

\* lines 220-223: the value shown for a unit
UnitValue(whole, one_based) == IF one_based THEN DAdd(whole, Dec(1)) ELSE whole

\* lines 209-224: the values of the units, largest first
RECURSIVE DoUnits(_, _, _, _, _)

\* lines 218-224: one unit, remainder being curr_num % unit.to_base(1)
DoUnit(ts, used_units, k, curr_num, remainder, one_based_units) ==
    DictPut(DoUnits(ts, used_units, k + 1, remainder, one_based_units),
            ts.units[used_units[k]].name,
            UnitValue(DInt(from_base(ts, used_units[k], DSub(curr_num, remainder))),
                      ts.units[used_units[k]].name \in one_based_units))

DoUnits(ts, used_units, k, curr_num, one_based_units) ==
    IF k > Len(used_units) THEN EmptyDict
    ELSE DoUnit(ts, used_units, k, curr_num,
                DMod(curr_num, to_base(ts, used_units[k], Dec(1))), one_based_units)

\* lines 235-255: the walk over the offsets; the subdivision selected and
\* the offsets before it, i = 0 when the loop ends without a selection
RECURSIVE WalkOffsets(_, _, _, _)
WalkOffsets(offsets, i, remainder, total_offset) ==
    IF i > Len(offsets) THEN [i |-> 0, total_offset |-> total_offset]
    ELSE LET left == DSub(remainder, offsets[i])
         IN  IF DLe(left, DZero) THEN [i |-> i, total_offset |-> total_offset]
             ELSE WalkOffsets(offsets, i + 1, left, DAdd(total_offset, offsets[i]))

\* one iteration of the loop over the used ExactDivisions raises
ExactDivRaises(ts, date_in_base_unit, d) ==
    LET div == ts.exact_divs[d]
    IN  \/ ExactDivOffsetsRaise(ts, date_in_base_unit, div.name)
        \/ FromBaseRaises(ts, ts.units_by_name[div.name_of_unit_dividing])
        \/ FromBaseRaises(ts, ts.units_by_name[div.name_of_unit_dividing_into])

\* lines 241-248: the subdivision w.i is recorded, and what lies before it is
\* taken from the value of the unit divided into
PlaceInDiv(ts, div, w, unit_values, one_based_units) ==
    IF w.i = 0 \/ div.name \in DOMAIN unit_values THEN unit_values
    ELSE IF div.name_of_unit_dividing_into \in DOMAIN unit_values
        THEN [DictPut(unit_values, div.name,
                      IF div.name \in one_based_units THEN Dec(w.i) ELSE Dec(w.i - 1))
                EXCEPT ![div.name_of_unit_dividing_into] =
                    DSub(@, DInt(from_base(ts, ts.units_by_name[div.name_of_unit_dividing_into],
                                           w.total_offset)))]
    ELSE DictPut(unit_values, div.name,
                 IF div.name \in one_based_units THEN Dec(w.i) ELSE Dec(w.i - 1))

\* lines 228-255: one used ExactDivision
DoExactDiv(ts, date_in_base_unit, d, unit_values, one_based_units) ==
    PlaceInDiv(ts, ts.exact_divs[d],
        WalkOffsets(get_exact_div_offsets(ts, date_in_base_unit, ts.exact_divs[d].name), 1,
                    DMod(date_in_base_unit,
                         to_base(ts, ts.units_by_name[ts.exact_divs[d].name_of_unit_dividing], Dec(1))),
                    DZero),
        unit_values, one_based_units)

RECURSIVE DoExactDivs(_, _, _, _, _, _)
DoExactDivs(ts, date_in_base_unit, used_exact_divs, k, unit_values, one_based_units) ==
    IF k > Len(used_exact_divs) THEN unit_values
    ELSE DoExactDivs(ts, date_in_base_unit, used_exact_divs, k + 1,
            DoExactDiv(ts, date_in_base_unit, used_exact_divs[k], unit_values, one_based_units),
            one_based_units)

RECURSIVE Concat(_, _)
Concat(strs, i) == IF i > Len(strs) THEN <<>> ELSE strs[i] \o Concat(strs, i + 1)

\* lines 172-181: the units the format names, each once, in the order of
\* their first occurrence
UsedUnits(ts, split) ==
    Seconds(FirstOccurrences(
        [i \in 1..Len(SelectSeq(split, LAMBDA t : t \in DOMAIN ts.units_by_name)) |->
            ts.units_by_name[SelectSeq(split, LAMBDA t : t \in DOMAIN ts.units_by_name)[i]]]))

\* a token that names an ExactDivision and no unit
IsDivToken(ts, t) == t \notin DOMAIN ts.units_by_name /\ t \in DOMAIN ts.exact_divs_by_name

\* lines 172-185: the ExactDivisions the format names, each once
UsedExactDivs(ts, split) ==
    Seconds(FirstOccurrences(
        [i \in 1..Len(SelectSeq(split, LAMBDA t : IsDivToken(ts, t))) |->
            ts.exact_divs_by_name[SelectSeq(split, LAMBDA t : IsDivToken(ts, t))[i]]]))

\* lines 283-304: every token that names a value is replaced by str(value)
FillFormat(split, unit_values) ==
    Ret(Concat([i \in 1..Len(split) |->
                    IF split[i] \in DOMAIN unit_values THEN IntStr(unit_values[split[i]])
                    ELSE split[i]], 1))

\* lines 203-304, for the units and the ExactDivisions found in the format
FormatUsed(ts, date_in_base_unit, split, used_units, used_exact_divs, one_based_units) ==
    IF \E k \in 1..Len(used_units) : UnitRaises(ts, used_units[k])
        THEN Raise("AssertionError")
    ELSE IF \E k \in 1..Len(used_exact_divs) : ExactDivRaises(ts, date_in_base_unit, used_exact_divs[k])
        THEN Raise("AssertionError")
    ELSE IF ts.repeating_divs # <<>> THEN Raise("AssertionError")
    ELSE FillFormat(split,
            DoExactDivs(ts, date_in_base_unit, used_exact_divs, 1,
                DoUnits(ts, SortLargestFirst(ts, used_units), 1, date_in_base_unit, one_based_units),
                one_based_units))

\* lines 167-304, for the tokens of the format selected
FormatSplit(ts, date_in_base_unit, split, one_based_units) ==
    FormatUsed(ts, date_in_base_unit, split, UsedUnits(ts, split), UsedExactDivs(ts, split),
               one_based_units)

\* base_to_format, without nicknames
base_to_format(ts, date, date_format, neg_date_format, one_based_units) ==
    IF ~check_compiled(ts) THEN Raise("AssertionError")
    ELSE FormatSplit(ts,
            IF DIsNeg(date) THEN DMul(date, Dec(-1)) ELSE date,
            split_date_format(ts, IF DIsNeg(date) /\ neg_date_format # None
                                  THEN neg_date_format ELSE date_format, <<>>),
            one_based_units)

\* _check_formats_same, without nicknames: same number of tokens, and every
\* token of the text that is no number equals the token of the format
check_formats_same(split_num_format, other_format) ==
    /\ Len(split_num_format) = Len(other_format)
    /\ \A i \in 1..Len(split_num_format) :
        ~IsNumberToken(split_num_format[i]) => split_num_format[i] = other_format[i]

\* ChooseFormat with the positive format taken whenever it matches, the
\* assertion of lines 356-359 forgotten
ChoosePositiveFirst(split_pos, split_neg, pos_date, neg_date) ==
    IF pos_date THEN [ok |-> TRUE, split |-> split_pos, is_neg |-> FALSE]
    ELSE IF neg_date THEN [ok |-> TRUE, split |-> split_neg, is_neg |-> TRUE]
    ELSE [ok |-> FALSE, split |-> <<>>, is_neg |-> FALSE]

\* lines 354-366: the format that matches the text
ChooseFormat(split_pos, split_neg, pos_date, neg_date) ==
    IF (neg_date /\ pos_date) \/ ~(neg_date \/ pos_date)
        THEN [ok |-> FALSE, split |-> <<>>, is_neg |-> FALSE]
    ELSE IF pos_date THEN [ok |-> TRUE, split |-> split_pos, is_neg |-> FALSE]
    ELSE [ok |-> TRUE, split |-> split_neg, is_neg |-> TRUE]

\* lines 352-355
MatchFormats(split_num, split_pos, split_neg) ==
    ChooseFormat(split_pos, split_neg, check_formats_same(split_num, split_pos),
                 check_formats_same(split_num, split_neg))

\* lines 344-369: the format the text is read with, and whether the date is
\* negative; no format is selected when both or neither match
SelectFormat(ts, split_num, date_format, neg_date_format) ==
    IF neg_date_format = None \/ neg_date_format = <<>>
        THEN [ok |-> TRUE, split |-> split_date_format(ts, date_format, <<>>), is_neg |-> FALSE]
    ELSE MatchFormats(split_num, split_date_format(ts, date_format, <<>>),
                      split_date_format(ts, neg_date_format, <<>>))

\* lines 402-410: what the token num_date_str is worth in base units as a
\* value of the unit named by the format
UnitInBase(ts, unit, num_date_str, one_based_units) ==
    IF ts.units[unit].name \in one_based_units
        THEN to_base(ts, unit, DSub(ParseDecimal(num_date_str), Dec(1)))
    ELSE to_base(ts, unit, ParseDecimal(num_date_str))

\* line 420-424: the index given for an ExactDivision
DivIndex(name, num_date_str, one_based_units) ==
    IF name \in one_based_units THEN ToMachine(ParseInt(num_date_str)) - 1
    ELSE ToMachine(ParseInt(num_date_str))

\* lines 457-461: the offsets before offset_index, added one after the other
RECURSIVE AddOffsetsBefore(_, _, _, _)
AddOffsetsBefore(offsets, offset_index, i, time_to_add) ==
    IF i > Len(offsets) \/ ~(i - 1 < offset_index) THEN time_to_add
    ELSE AddOffsetsBefore(offsets, offset_index, i + 1, DAdd(time_to_add, offsets[i]))

\* lines 441-461: the loop over exact_divs_used
RECURSIVE TimeToAdd(_, _, _, _, _)
TimeToAdd(ts, date_in_base_unit, exact_divs_used, k, time_to_add) ==
    IF k > Len(exact_divs_used) THEN time_to_add
    ELSE TimeToAdd(ts, date_in_base_unit, exact_divs_used, k + 1,
            AddOffsetsBefore(get_exact_div_offsets(ts, date_in_base_unit, exact_divs_used[k][1]),
                             exact_divs_used[k][2], 1, time_to_add))

\* the ExactDivision a token names
DivOfToken(ts, t) == ts.exact_divs[ts.exact_divs_by_name[t]]

\* lines 517-540: the part of the original date below the smallest unit used
\* is kept, and the sign is applied
ReadSorted(ts, sorted, date_in_base_unit, origional_date_in_base_unit, is_neg) ==
    IF FromBaseRaises(ts, sorted[Len(sorted)]) THEN Raise("InvalidOperation")
    ELSE IF ts.parent_unit[sorted[1]] # NoUnit /\ FromBaseRaises(ts, ts.parent_unit[sorted[1]])
        THEN Raise("InvalidOperation")
    ELSE IF is_neg
        THEN Ret(DMul(DAdd(date_in_base_unit,
                           DMod(origional_date_in_base_unit, to_base(ts, sorted[Len(sorted)], Dec(1)))),
                      Dec(-1)))
    ELSE Ret(DAdd(date_in_base_unit,
                  DMod(origional_date_in_base_unit, to_base(ts, sorted[Len(sorted)], Dec(1)))))

\* lines 441-517: the offsets of the ExactDivisions are added to the sum of
\* the units, and the units used are sorted
ReadDivs(ts, units_sum, exact_divs_used, units_used, origional_date_in_base_unit, is_neg) ==
    IF \E k \in 1..Len(exact_divs_used) :
            \/ DivOfToken(ts, exact_divs_used[k][1]).name_of_unit_dividing_into
                    \notin DOMAIN ts.units_by_name
            \/ ExactDivOffsetsRaise(ts, units_sum, exact_divs_used[k][1])
        THEN Raise("AssertionError")
    ELSE IF \E k \in 1..Len(units_used) : ts.working[units_used[k]] = NoAttr
        THEN Raise("AssertionError")
    ELSE IF units_used = <<>> THEN Raise("IndexError")
    ELSE ReadSorted(ts, SortLargestFirst(ts, units_used),
                    DAdd(units_sum, TimeToAdd(ts, units_sum, exact_divs_used, 1, DZero)),
                    origional_date_in_base_unit, is_neg)

\* lines 402-449: the values of the units in base units, the ExactDivisions
\* with the index given for each, and the units used
ReadUnits(ts, split_num, split, first_pos, div_pos, origional_date_in_base_unit, is_neg, one_based_units) ==
    ReadDivs(ts,
        SumDecimals([k \in 1..Len(first_pos) |->
                        UnitInBase(ts, ts.units_by_name[split[first_pos[k]]],
                                   split_num[first_pos[k]], one_based_units)], 1, DZero),
        [k \in 1..Len(div_pos) |->
            <<split[div_pos[k]], DivIndex(split[div_pos[k]], split_num[div_pos[k]], one_based_units)>>],
        Seconds(FirstOccurrences(
            [k \in 1..Len(first_pos) |-> ts.units_by_name[split[first_pos[k]]]]
            \o [k \in 1..Len(div_pos) |->
                    ts.units_by_name[DivOfToken(ts, split[div_pos[k]]).name_of_unit_dividing_into]])),
        origional_date_in_base_unit, is_neg)

\* ReadTokens with the assertion of lines 413-415 forgotten: the first value
\* given for a unit is kept
ReadTokensUnasserted(ts, split_num, split, unit_pos, div_pos, origional_date_in_base_unit, is_neg, one_based_units) ==
    IF \E k \in 1..Len(unit_pos) :
            \/ ~IsNumberToken(split_num[unit_pos[k]])
            \/ ToBaseRaises(ts, ts.units_by_name[split[unit_pos[k]]])
        THEN Raise("InvalidOperation")
    ELSE IF \E k \in 1..Len(div_pos) : ~IsIntToken(split_num[div_pos[k]])
        THEN Raise("ValueError")
    ELSE ReadUnits(ts, split_num, split,
            SelectSeq(unit_pos, LAMBDA i : \A j \in 1..(i - 1) : split[j] # split[i]),
            div_pos, origional_date_in_base_unit, is_neg, one_based_units)

\* lines 380-431: the loop over the tokens raises on a token that is no
\* number, and on a unit given two different values
ReadTokens(ts, split_num, split, unit_pos, div_pos, origional_date_in_base_unit, is_neg, one_based_units) ==
    IF \E k \in 1..Len(unit_pos) :
            \/ ~IsNumberToken(split_num[unit_pos[k]])
            \/ ToBaseRaises(ts, ts.units_by_name[split[unit_pos[k]]])
        THEN Raise("InvalidOperation")
    ELSE IF \E k \in 1..Len(unit_pos) : \E j \in 1..(k - 1) :
            /\ split[unit_pos[j]] = split[unit_pos[k]]
            /\ UnitInBase(ts, ts.units_by_name[split[unit_pos[k]]], split_num[unit_pos[k]], one_based_units)
                # UnitInBase(ts, ts.units_by_name[split[unit_pos[j]]], split_num[unit_pos[j]], one_based_units)
        THEN Raise("AssertionError")
    ELSE IF \E k \in 1..Len(div_pos) : ~IsIntToken(split_num[div_pos[k]])
        THEN Raise("ValueError")
    ELSE ReadUnits(ts, split_num, split,
            SelectSeq(unit_pos, LAMBDA i : \A j \in 1..(i - 1) : split[j] # split[i]),
            div_pos, origional_date_in_base_unit, is_neg, one_based_units)

\* lines 371-540, for the format selected
ReadSelected(ts, split_num, sel, origional_date_in_base_unit, one_based_units) ==
    IF ~sel.ok THEN Raise("AssertionError")
    ELSE IF Len(sel.split) # Len(split_num) THEN Raise("AssertionError")
    ELSE ReadTokens(ts, split_num, sel.split,
            SelectSeq([i \in 1..Len(sel.split) |-> i],
                      LAMBDA i : sel.split[i] \in DOMAIN ts.units_by_name),
            SelectSeq([i \in 1..Len(sel.split) |-> i],
                      LAMBDA i : IsDivToken(ts, sel.split[i])),
            origional_date_in_base_unit, sel.is_neg, one_based_units)

\* lines 343-540, for the tokens of the text
ReadSplit(ts, split_num, date_format, origional_date_in_base_unit, neg_date_format, one_based_units) ==
    ReadSelected(ts, split_num, SelectFormat(ts, split_num, date_format, neg_date_format),
                 origional_date_in_base_unit, one_based_units)

\* format_to_base, without nicknames
format_to_base(ts, date_format_with_numbers, date_format, origional_date_in_base_unit, neg_date_format, one_based_units) ==
    IF ~check_compiled(ts) THEN Raise("AssertionError")
    ELSE ReadSplit(ts, SplitNumbers(date_format_with_numbers), date_format,
                   origional_date_in_base_unit, neg_date_format, one_based_units)

\* src/time_system.py, lines 343-348 and 350-355: the "-" characters a
\* string begins with
RECURSIVE minus_cnt(_)
minus_cnt(string) ==
    IF string # <<>> /\ Head(string) = "-" THEN 1 + minus_cnt(Tail(string)) ELSE 0

\* MinusSigned with >= for the > of line 357
MinusSignedAtLeast(date_in_base_unit, num_minus_cnt, form_minus_cnt) ==
    IF num_minus_cnt >= form_minus_cnt THEN DMul(date_in_base_unit, Dec(-1))
    ELSE date_in_base_unit

\* src/time_system.py, lines 357-358
MinusSigned(date_in_base_unit, num_minus_cnt, form_minus_cnt) ==
    IF num_minus_cnt > form_minus_cnt THEN DMul(date_in_base_unit, Dec(-1))
    ELSE date_in_base_unit

\* src/time_system.py, lines 341-361: the sign and the value returned for
\* the date read from the text
MinusCounted(read, date_format_with_numbers, date_format) ==
    IF ~read.ok THEN read
    ELSE Ret(DInt(MinusSigned(read.val, minus_cnt(date_format_with_numbers),
                              minus_cnt(date_format))))

\* format_to_base of src/time_system.py, lines 211-361. Its lines 234-340
\* are lines 331-532 of src/main.py with no negative format, no nicknames
\* and no RepeatingDivisions, so the date is read as format_to_base reads it
\* with neg_date_format None; the sign is then taken from the "-" the text
\* and the format begin with, and the date is returned as an int
time_system_format_to_base(ts, date_format_with_numbers, date_format, origional_date_in_base_unit, one_based_units) ==
    MinusCounted(format_to_base(ts, date_format_with_numbers, date_format,
                                origional_date_in_base_unit, None, one_based_units),
                 date_format_with_numbers, date_format)

\* src/time_system.py, lines 158-161: the value shown for a unit, 1 being
\* added before int() is taken
time_system_UnitValue(quotient, one_based) ==
    IF one_based THEN DInt(DAdd(quotient, Dec(1))) ELSE DInt(quotient)

\* src/time_system.py, lines 150-163: the values of the units, largest first
RECURSIVE time_system_DoUnits(_, _, _, _, _)

time_system_DoUnit(ts, used_units, k, curr_num, remainder, one_based_units) ==
    DictPut(time_system_DoUnits(ts, used_units, k + 1, remainder, one_based_units),
            ts.units[used_units[k]].name,
            time_system_UnitValue(from_base(ts, used_units[k], DSub(curr_num, remainder)),
                                  ts.units[used_units[k]].name \in one_based_units))

time_system_DoUnits(ts, used_units, k, curr_num, one_based_units) ==
    IF k > Len(used_units) THEN EmptyDict
    ELSE time_system_DoUnit(ts, used_units, k, curr_num,
                DMod(curr_num, to_base(ts, used_units[k], Dec(1))), one_based_units)

\* src/time_system.py, lines 174-193: the walk over the offsets stops when
\* the remainder is below 0
RECURSIVE time_system_WalkOffsets(_, _, _, _)
time_system_WalkOffsets(offsets, i, remainder, total_offset) ==
    IF i > Len(offsets) THEN [i |-> 0, total_offset |-> total_offset]
    ELSE LET left == DSub(remainder, offsets[i])
         IN  IF DLt(left, DZero) THEN [i |-> i, total_offset |-> total_offset]
             ELSE time_system_WalkOffsets(offsets, i + 1, left, DAdd(total_offset, offsets[i]))

\* src/time_system.py, lines 167-193: one used ExactDivision
time_system_DoExactDiv(ts, date_in_base_unit, d, unit_values, one_based_units) ==
    PlaceInDiv(ts, ts.exact_divs[d],
        time_system_WalkOffsets(
            get_exact_div_offsets(ts, date_in_base_unit, ts.exact_divs[d].name), 1,
            DMod(date_in_base_unit,
                 to_base(ts, ts.units_by_name[ts.exact_divs[d].name_of_unit_dividing], Dec(1))),
            DZero),
        unit_values, one_based_units)

RECURSIVE time_system_DoExactDivs(_, _, _, _, _, _)
time_system_DoExactDivs(ts, date_in_base_unit, used_exact_divs, k, unit_values, one_based_units) ==
    IF k > Len(used_exact_divs) THEN unit_values
    ELSE time_system_DoExactDivs(ts, date_in_base_unit, used_exact_divs, k + 1,
            time_system_DoExactDiv(ts, date_in_base_unit, used_exact_divs[k], unit_values,
                                   one_based_units),
            one_based_units)

\* src/time_system.py, lines 126-203, for the units and the ExactDivisions
\* found in the format
time_system_FormatUsed(ts, date_in_base_unit, split, used_units, used_divs, one_based_units) ==
    IF \E k \in 1..Len(used_units) : UnitRaises(ts, used_units[k])
        THEN Raise("AssertionError")
    ELSE IF \E k \in 1..Len(used_divs) : ExactDivRaises(ts, date_in_base_unit, used_divs[k])
        THEN Raise("AssertionError")
    ELSE FillFormat(split,
            time_system_DoExactDivs(ts, date_in_base_unit, used_divs, 1,
                time_system_DoUnits(ts, SortLargestFirst(ts, used_units), 1, date_in_base_unit,
                                    one_based_units),
                one_based_units))

\* src/time_system.py, lines 205-207: a date below 0 is written with a "-"
\* before the format
time_system_Signed(out, should_be_negative) ==
    IF out.ok /\ should_be_negative THEN Ret(<<"-">> \o out.val) ELSE out

\* src/time_system.py, lines 98-209: base_to_format(date_in_base_unit,
\* date_format, one_based_units); its names contain no character that a
\* regular expression reads as an operator, so the format splits as in
\* src/main.py
time_system_base_to_format(ts, date, date_format, one_based_units) ==
    IF ~check_compiled(ts) THEN Raise("AssertionError")
    ELSE time_system_Signed(
            time_system_FormatUsed(ts,
                IF DIsNeg(date) THEN DMul(date, Dec(-1)) ELSE date,
                split_date_format(ts, date_format, <<>>),
                UsedUnits(ts, split_date_format(ts, date_format, <<>>)),
                UsedExactDivs(ts, split_date_format(ts, date_format, <<>>)),
                one_based_units),
            DIsNeg(date))

\* unit_for_unit_name
unit_for_unit_name(ts, unit_name) ==
    IF ~check_compiled(ts) THEN Raise("AssertionError")
    ELSE IF unit_name \notin DOMAIN ts.units_by_name THEN Raise("AssertionError")
    ELSE Ret(ts.units_by_name[unit_name])

\* unit_to_base_unit
unit_to_base_unit(ts, date_in_unit, unit_name) ==
    IF ~unit_for_unit_name(ts, unit_name).ok THEN Raise("AssertionError")
    ELSE IF ToBaseRaises(ts, ts.units_by_name[unit_name]) THEN Raise("AssertionError")
    ELSE Ret(to_base(ts, ts.units_by_name[unit_name], date_in_unit))

\* base_unit_to_unit
base_unit_to_unit(ts, date_in_base_unit, unit_name) ==
    IF ~unit_for_unit_name(ts, unit_name).ok THEN Raise("AssertionError")
    ELSE IF FromBaseRaises(ts, ts.units_by_name[unit_name]) THEN Raise("DivisionByZero")
    ELSE Ret(from_base(ts, ts.units_by_name[unit_name], date_in_base_unit))

\* -------------------------------------------------------------------------
\* The example of __main__: the Gregorian calendar

Second == <<"S", "e", "c", "o", "n", "d">>
Minute == <<"M", "i", "n", "u", "t", "e">>
Hour == <<"H", "o", "u", "r">>
Day == <<"D", "a", "y">>
Year == <<"Y", "e", "a", "r">>
Month == <<"M", "o", "n", "t", "h">>
Week == <<"W", "e", "e", "k">>

\* the names of exceptions and the labels of subdivisions never occur in a
\* format: they are kept as strings
LEAP_DAY_4 == "Leap Day 4"
LEAP_DAY_100 == "Leap Day 100"
LEAP_DAY_400 == "Leap Day 400"
FEBRUARY == "February"

\* lines 1083-1089: the five units
GregorianUnits ==
    Compile(AddUnit(AddUnit(AddUnit(AddUnit(AddUnit(NewTimeSystem,
        Second, Dec(1), None).ts,
        Minute, Dec(60), Second).ts,
        Hour, Dec(60), Minute).ts,
        Day, Dec(24), Hour).ts,
        Year, Dec(365), Day).ts).ts

\* lines 1116-1120: the leap day exceptions
GregorianLeap ==
    Compile(AddException(AddException(AddException(GregorianUnits,
        LEAP_DAY_4, Dec(4), Year, Dec(1), Day).ts,
        LEAP_DAY_100, Dec(100), Year, Dec(-1), Day).ts,
        LEAP_DAY_400, Dec(400), Year, Dec(1), Day).ts).ts

\* lines 1159-1168: Month, and the state the conversions below start from
greg_calander ==
    Compile(AddExactDivision(GregorianLeap, Month, Year, Day,
        << <<"January", 31>>, <<FEBRUARY, 28>>, <<"March", 31>>, <<"April", 30>>,
           <<"May", 31>>, <<"June", 30>>, <<"July", 31>>, <<"August", 31>>,
           <<"Septemder", 30>>, <<"October", 31>>, <<"November", 30>>, <<"December", 31>> >>,
        << <<LEAP_DAY_4, FEBRUARY>>, <<LEAP_DAY_100, FEBRUARY>>, <<LEAP_DAY_400, FEBRUARY>> >>).ts).ts

ONE_BASED_UNITS == {Month, Day, Week}

AMERICAN_FORMAT == Month \o <<"/">> \o Day \o <<"/">> \o Year

\* -------------------------------------------------------------------------
\* A second system, declared through the same operations: Hour is its base
\* unit, a Day is 24 Hours, a Year is 30 Days, every 3 Years a Day is added,
\* and Season divides the Year into 10 and 20 Days

Season == <<"S", "e", "a", "s", "o", "n">>
LEAP == "Leap"
DRIFT == "Drift"
SHRINK == "Shrink"

SmallUnits ==
    AddUnit(AddUnit(AddUnit(NewTimeSystem,
        Hour, Dec(1), None).ts,
        Day, Dec(24), Hour).ts,
        Year, Dec(30), Day).ts

small_calander ==
    Compile(AddExactDivision(AddException(SmallUnits,
        LEAP, Dec(3), Year, Dec(1), Day).ts,
        Season, Year, Day, << <<"Wet", 10>>, <<"Dry", 20>> >>, << <<LEAP, "Dry">> >>).ts).ts

\* -------------------------------------------------------------------------
\* The state: one TimeSystem object and the last call made on it

VARIABLES ts, last, settled

vars == <<ts, last, settled>>

\* The arguments of a call, each under the name of its parameter; the
\* parameters a call does not have keep the values of NoArgs.  declaration
\* is the position, in its menu below, of what an add-operation declares.
NoArgs ==
    [text |-> <<>>, date_format |-> <<>>, amount |-> NoAttr, unit_name |-> <<>>,
     one_based_units |-> {}, neg_date_format |-> None, declaration |-> 0]

\* The value a call returns: a text, an amount or a Unit
NoValue == [text |-> <<>>, amount |-> NoAttr, unit |-> NoUnit]

TextValue(out) == [NoValue EXCEPT !.text = out.val]
AmountValue(out) == [NoValue EXCEPT !.amount = out.val]
UnitObject(out) == [NoValue EXCEPT !.unit = out.val]

\* A call: its name, its arguments, whether it returned normally, the value
\* returned or the error raised; pre holds the compiled flag before the call
\* and whether the definitions were unchanged since a compile() that
\* succeeded; from holds the arguments of the call whose result was passed on
\* as the first argument of this one
Call(op, args, out, val, from) ==
    [op |-> op, args |-> args, ok |-> out.ok,
     err |-> IF out.ok THEN "" ELSE out.val,
     val |-> IF out.ok THEN val ELSE NoValue,
     from |-> from,
     pre |-> [compiled |-> ts.compiled, settled |-> settled]]

NoCall ==
    [op |-> "none", args |-> NoArgs, ok |-> TRUE, err |-> "", val |-> NoValue,
     from |-> NoArgs, pre |-> [compiled |-> FALSE, settled |-> FALSE]]

Declared(i) == [NoArgs EXCEPT !.declaration = i]

AddOps == {"add_unit", "add_exception", "add_exact_division", "add_repeating_division"}

ConversionOps == {"unit_for_unit_name", "unit_to_base_unit", "base_unit_to_unit",
                  "base_to_format", "format_to_base"}

\* The declarations a caller draws from: the second system above, a unit
\* with a conversion factor of 0, an exception that adds the unit of its
\* own interval, and an exception that takes 30 Days from every Year
UnitMenu ==
    << <<Hour, Dec(1), None>>, <<Day, Dec(24), Hour>>, <<Year, Dec(30), Day>>,
       <<Week, Dec(0), Day>> >>

ExceptionMenu ==
    << <<LEAP, Dec(3), Year, Dec(1), Day>>, <<DRIFT, Dec(2), Day, Dec(1), Day>>,
       <<SHRINK, Dec(1), Year, Dec(-30), Day>> >>

DivisionMenu ==
    << <<Season, Year, Day, << <<"Wet", 10>>, <<"Dry", 20>> >>, << <<LEAP, "Dry">> >> >> >>

RepeatingMenu ==
    << <<Week, Day, << <<"Even", 1>>, <<"Odd", 1>> >> >> >>

\* how many declarations of each kind one TimeSystem receives
MaxUnits == 3
MaxExceptions == 2
MaxExactDivs == 1

TimeSystemInit ==
    /\ ts = NewTimeSystem
    /\ last = NoCall
    /\ settled = FALSE

\* add_unit(name, conversion_factor, parent_unit_name)
add_unit ==
    /\ Len(ts.units) < MaxUnits
    /\ \E i \in 1..Len(UnitMenu) :
        LET out == AddUnit(ts, UnitMenu[i][1], UnitMenu[i][2], UnitMenu[i][3])
        IN  /\ ts' = out.ts
            /\ last' = Call("add_unit", Declared(i), out, NoValue, NoArgs)
            /\ settled' = (settled /\ ~out.ok)

\* add_exception(name, interval_amount, interval_amount_unit_name,
\*               add_amount, add_amount_unit_name)
add_exception ==
    /\ Len(ts.exceptions) < MaxExceptions
    /\ \E i \in 1..Len(ExceptionMenu) :
        LET e == ExceptionMenu[i]
            out == AddException(ts, e[1], e[2], e[3], e[4], e[5])
        IN  /\ ts' = out.ts
            /\ last' = Call("add_exception", Declared(i), out, NoValue, NoArgs)
            /\ settled' = (settled /\ ~out.ok)

\* add_exact_division(name, name_of_unit_dividing, name_of_unit_dividing_into,
\*                    division_defs, division_corrections)
add_exact_division ==
    /\ Len(ts.exact_divs) < MaxExactDivs
    /\ \E i \in 1..Len(DivisionMenu) :
        LET d == DivisionMenu[i]
            out == AddExactDivision(ts, d[1], d[2], d[3], d[4], d[5])
        IN  /\ ts' = out.ts
            /\ last' = Call("add_exact_division", Declared(i), out, NoValue, NoArgs)
            /\ settled' = (settled /\ ~out.ok)

\* add_repeating_division(name, name_of_unit_in, division_defs)
add_repeating_division ==
    \E i \in 1..Len(RepeatingMenu) :
        LET d == RepeatingMenu[i]
            out == AddRepeatingDivision(ts, d[1], d[2], d[3])
        IN  /\ ts' = out.ts
            /\ last' = Call("add_repeating_division", Declared(i), out, NoValue, NoArgs)
            /\ settled' = (settled /\ ~out.ok)

\* compile()
compile ==
    LET out == Compile(ts)
    IN  /\ ts' = out.ts
        /\ last' = Call("compile", NoArgs, out, NoValue, NoArgs)
        /\ settled' = out.ok

\* The arguments the conversions are called with while the definitions change
CallAmount == Dec(2)
CallUnitNames == {Day, Year}
CallFormat == Year \o <<":">> \o Day
CallText == <<"1", ":", "2">>

\* unit_for_unit_name(unit_name)
call_unit_for_unit_name ==
    \E n \in CallUnitNames :
        /\ last' = Call("unit_for_unit_name", [NoArgs EXCEPT !.unit_name = n],
                        unit_for_unit_name(ts, n),
                        UnitObject(unit_for_unit_name(ts, n)), NoArgs)
        /\ UNCHANGED <<ts, settled>>

\* unit_to_base_unit(date_in_unit, unit_name)
call_unit_to_base_unit ==
    \E n \in CallUnitNames :
        /\ last' = Call("unit_to_base_unit",
                        [NoArgs EXCEPT !.amount = CallAmount, !.unit_name = n],
                        unit_to_base_unit(ts, CallAmount, n),
                        AmountValue(unit_to_base_unit(ts, CallAmount, n)), NoArgs)
        /\ UNCHANGED <<ts, settled>>

\* base_unit_to_unit(date_in_base_unit, unit_name)
call_base_unit_to_unit ==
    \E n \in CallUnitNames :
        /\ last' = Call("base_unit_to_unit",
                        [NoArgs EXCEPT !.amount = CallAmount, !.unit_name = n],
                        base_unit_to_unit(ts, CallAmount, n),
                        AmountValue(base_unit_to_unit(ts, CallAmount, n)), NoArgs)
        /\ UNCHANGED <<ts, settled>>

\* base_to_format(date, date_format)
call_base_to_format ==
    /\ last' = Call("base_to_format",
                    [NoArgs EXCEPT !.amount = CallAmount, !.date_format = CallFormat],
                    base_to_format(ts, CallAmount, CallFormat, None, {}),
                    TextValue(base_to_format(ts, CallAmount, CallFormat, None, {})), NoArgs)
    /\ UNCHANGED <<ts, settled>>

\* format_to_base(date_format_with_numbers, date_format)
call_format_to_base ==
    /\ last' = Call("format_to_base",
                    [NoArgs EXCEPT !.text = CallText, !.date_format = CallFormat, !.amount = Dec(0)],
                    format_to_base(ts, CallText, CallFormat, Dec(0), None, {}),
                    AmountValue(format_to_base(ts, CallText, CallFormat, Dec(0), None, {})), NoArgs)
    /\ UNCHANGED <<ts, settled>>

Next ==
    \/ add_unit
    \/ add_exception
    \/ add_exact_division
    \/ add_repeating_division
    \/ compile
    \/ call_unit_for_unit_name
    \/ call_unit_to_base_unit
    \/ call_base_unit_to_unit
    \/ call_base_to_format
    \/ call_format_to_base

Spec == TimeSystemInit /\ [][Next]_vars

\* -------------------------------------------------------------------------
\* The conversions of __main__, made on a compiled system: the Gregorian
\* calendar of __main__ or the second system

SEASON_FORMAT == Season \o <<"/">> \o Day \o <<"/">> \o Year

SEASON_ONE_BASED == {Season, Day}

UNIT_FORMAT == <<":">> \o Year \o <<":">> \o Day \o <<":">> \o Second \o <<":">>

\* the text month/day/year of a date
DateText(m, d, y) ==
    IntStr(Dec(m)) \o <<"/">> \o IntStr(Dec(d)) \o <<"/">> \o IntStr(Dec(y))

\* the texts the dates are drawn from: the first MaxMonth subdivisions, the
\* days around the ends of the months, the years of __main__ and a year in
\* which no exception applies
MaxMonth == 3
DayChoices == {1, 2, 28, 29, 30, 31, 32}
YearChoices == {2020, 2021, 2100, 2400}

\* Decimal('0.5')
Half == [s |-> 1, c |-> <<5>>, e |-> -1]

\* the amounts converted: 0..MaxAmount, a negative amount and a fraction
MaxAmount == 5
Amounts == {Dec(k) : k \in 0..MaxAmount} \cup {Dec(-3), Half}

\* the arguments of format_to_base: the text, the format, the original
\* date (amount), the one-based units and the negative format
FormatArgs(text, date_format, original, one_based_units, neg_date_format) ==
    [NoArgs EXCEPT !.text = text, !.date_format = date_format, !.amount = original,
                   !.one_based_units = one_based_units, !.neg_date_format = neg_date_format]

DateInputs ==
    {FormatArgs(DateText(m, d, y), f[1], Dec(0), f[2], None) :
        m \in 1..MaxMonth, d \in DayChoices, y \in YearChoices,
        f \in {<<AMERICAN_FORMAT, ONE_BASED_UNITS>>, <<SEASON_FORMAT, SEASON_ONE_BASED>>}}

\* lines 1154-1155
MainInputs ==
    {FormatArgs(<<":", "2", "0", "2", "1", ":", "2", "1", ":", "1", ":">>, UNIT_FORMAT,
                Dec(0), {}, None),
     FormatArgs(<<"-", ":", "2", "0", "2", "1", ":", "2", "1", ":", "1", ":">>, UNIT_FORMAT,
                Dec(0), {}, <<"-">> \o UNIT_FORMAT)}

\* a format that names one unit, and a text that gives its value
PartialFormat(u) == <<":">> \o u \o <<":">>
PartialText(v) == <<":">> \o IntStr(Dec(v)) \o <<":">>
PartialValues == {0, 2, 2021}
Originals == {Dec(0), Dec(5), Dec(100), Dec(-100), Half}

PartialInputs ==
    {FormatArgs(PartialText(v), PartialFormat(u), o, {}, None) :
        v \in PartialValues, u \in {Day, Year}, o \in Originals}

\* texts read with a negative format beside the positive one: a text that
\* matches the positive format, one that matches the negative format and
\* one that matches neither; a negative format equal to the positive one
\* matches whenever the positive one does
SignedFormat == <<":">> \o Year \o <<":">> \o Day \o <<":">>
SignedTexts == {<<":", "2", ":", "3", ":">>, <<"-", ":", "2", ":", "3", ":">>, <<"2", "/", "3">>}

NegInputs ==
    {FormatArgs(text, SignedFormat, o, {}, n) :
        text \in SignedTexts, o \in {Dec(0), Dec(5)},
        n \in {<<"-">> \o SignedFormat, SignedFormat}}

\* texts that begin with no, one or two "-", read by src/time_system.py
\* with a format that begins with no or one "-"; the texts of lines 896-897
MinusTexts ==
    {<<":", "2", ":", "3", ":">>, <<"-", ":", "2", ":", "3", ":">>,
     <<"-", "-", ":", "2", ":", "3", ":">>, <<"-", ":", "2", ":", "-", "3", ":">>}

MinusInputs ==
    {FormatArgs(text, f, o, {}, None) :
        text \in MinusTexts, f \in {SignedFormat, <<"-">> \o SignedFormat},
        o \in {Dec(0), Dec(5), Half, Dec(-100)}}
    \cup {FormatArgs(a.text, a.date_format, a.amount, {}, None) : a \in MainInputs}

\* texts whose delimiters are and are not those of the format, and a text
\* with one token more than the format, read with and without a negative
\* format; "6-26-2021" read as Month/Day/Year
SlashFormat == Year \o <<"/">> \o Day
SlashTexts == {<<"2", "/", "3">>, <<"2", "-", "3">>, <<"2", "/", "3", "/">>}

MismatchInputs ==
    {FormatArgs(text, SlashFormat, Dec(0), {}, n) :
        text \in SlashTexts, n \in {None, <<"-">> \o SlashFormat}}
    \cup {FormatArgs(<<"6", "-", "2", "6", "-", "2", "0", "2", "1">>, AMERICAN_FORMAT,
                     Dec(0), ONE_BASED_UNITS, None)}

\* formats that name Day twice, with texts that give it the same value
\* twice (written the same way or not) or two values, and the format that
\* names it once
RepeatInputs ==
    {FormatArgs(c[1], c[2], o, b, None) :
        c \in {<<<<"3", "/", "3", "/", "2">>, Day \o <<"/">> \o Day \o <<"/">> \o Year>>,
               <<<<"3", "/", "4", "/", "2">>, Day \o <<"/">> \o Day \o <<"/">> \o Year>>,
               <<<<"3", "/", "3", ".", "0", "/", "2">>, Day \o <<"/">> \o Day \o <<"/">> \o Year>>,
               <<<<"3", "/", "2", "/", "3">>, Day \o <<"/">> \o Year \o <<"/">> \o Day>>,
               <<<<"4", "/", "2", "/", "3">>, Day \o <<"/">> \o Year \o <<"/">> \o Day>>,
               <<<<"3", "/", "2">>, Day \o <<"/">> \o Year>>},
        o \in {Dec(0), Dec(5)}, b \in {{}, {Day}}}

\* one of each unit, read with formats of the units below the Year, over
\* the date 0 and over a date of more than an Hour
OrderInputs ==
    {FormatArgs(c[1], c[2], Dec(o), {}, None) :
        c \in {<<<<"1", ":", "1">>, Day \o <<":">> \o Hour>>,
               <<<<"1", ":", "1">>, Hour \o <<":">> \o Minute>>,
               <<<<"1", ":", "1", ":", "1">>, Day \o <<":">> \o Hour \o <<":">> \o Minute>>},
        o \in {0, 5000}}

\* dates written with formats that name units only, the base unit among
\* them: whole years of the second system, and the dates of lines 1141 and
\* 1139-1143 of the Gregorian calendar
HOUR_FORMAT == Year \o <<":">> \o Day \o <<":">> \o Hour
SECOND_FORMAT == Day \o <<":">> \o Hour \o <<":">> \o Second

UnitDates ==
    {[NoArgs EXCEPT !.amount = Dec(d), !.date_format = HOUR_FORMAT, !.one_based_units = b] :
        d \in {0, 728, 2912}, b \in {{}, {Day}}}
    \cup {[NoArgs EXCEPT !.amount = d, !.date_format = f] :
            d \in {Dec(90000), [s |-> 1, c |-> <<3, 1, 6, 4, 3, 3, 5, 2>>, e |-> 0]},
            f \in {UNIT_FORMAT, SECOND_FORMAT}}

\* dates written by base_to_format_test itself: the first instants of the
\* subdivisions and of the years of the second system and the last hours of
\* its year 1; of the Gregorian calendar, two instants of the last days of
\* year 1, the end of the 31st day of year 0 and the end of the 365th day of
\* year 1
WrittenDates ==
    {[NoArgs EXCEPT !.amount = Dec(d), !.date_format = SEASON_FORMAT, !.one_based_units = b] :
        d \in {0, 240, 727, 744, 1447, 1453}, b \in {{}, SEASON_ONE_BASED}}
    \cup {[NoArgs EXCEPT !.amount = d, !.date_format = AMERICAN_FORMAT,
                         !.one_based_units = ONE_BASED_UNITS] :
            d \in {[s |-> 1, c |-> <<6, 3, 0, 0, 6, 6, 5, 2>>, e |-> 0],
                   [s |-> 1, c |-> <<6, 3, 0, 9, 3, 0, 5, 2>>, e |-> 0],
                   [s |-> 1, c |-> <<2, 6, 7, 8, 4>>, e |-> 2],
                   [s |-> 1, c |-> <<6, 3, 0, 9, 2, 9, 5, 2>>, e |-> 0]}}
    \cup UnitDates

\* the texts and formats format_to_base_test is called with
TestInputs ==
    DateInputs \cup MainInputs \cup PartialInputs \cup NegInputs \cup MismatchInputs
        \cup RepeatInputs \cup OrderInputs

\* Each behaviour is one test of __main__: a conversion, and the conversion
\* of its result back
ConvInit ==
    /\ ts \in {greg_calander, small_calander}
    /\ last = NoCall
    /\ settled = TRUE

\* lines 1094-1097: test_unit_to_base(date_in_unit, unit_name)
test_unit_to_base ==
    \E x \in Amounts, n \in Range(UnitNames(ts)) :
        /\ last.op = "none"
        /\ last' = Call("unit_to_base_unit", [NoArgs EXCEPT !.amount = x, !.unit_name = n],
                        unit_to_base_unit(ts, x, n),
                        AmountValue(unit_to_base_unit(ts, x, n)), NoArgs)
        /\ UNCHANGED <<ts, settled>>

\* lines 1099-1102: test_base_to_unit(date_in_base, unit_name), called as at
\* line 1106 with the amount test_unit_to_base returned for the same unit
test_base_to_unit ==
    /\ last.op = "unit_to_base_unit"
    /\ last.ok
    /\ last' = Call("base_unit_to_unit", [last.args EXCEPT !.amount = last.val.amount],
                    base_unit_to_unit(ts, last.val.amount, last.args.unit_name),
                    AmountValue(base_unit_to_unit(ts, last.val.amount, last.args.unit_name)),
                    last.args)
    /\ UNCHANGED <<ts, settled>>

\* lines 1148-1152: format_to_base_test
format_to_base_test ==
    \E a \in TestInputs :
        /\ last.op = "none"
        /\ last' = Call("format_to_base", a,
                        format_to_base(ts, a.text, a.date_format, a.amount,
                                       a.neg_date_format, a.one_based_units),
                        AmountValue(format_to_base(ts, a.text, a.date_format, a.amount,
                                                   a.neg_date_format, a.one_based_units)),
                        NoArgs)
        /\ UNCHANGED <<ts, settled>>

\* src/time_system.py, lines 889-893: format_to_base_test
time_system_format_to_base_test ==
    \E a \in MinusInputs :
        /\ last.op = "none"
        /\ last' = Call("time_system.format_to_base", a,
                        time_system_format_to_base(ts, a.text, a.date_format, a.amount,
                                                   a.one_based_units),
                        AmountValue(time_system_format_to_base(ts, a.text, a.date_format,
                                                   a.amount, a.one_based_units)),
                        NoArgs)
        /\ UNCHANGED <<ts, settled>>

\* lines 1133-1137: base_to_format_test, called as at lines 1173-1174 with
\* the date format_to_base_test returned, the same format and the same
\* one-based units
base_to_format_test ==
    /\ last.op = "format_to_base"
    /\ last.ok
    /\ last' = Call("base_to_format",
                    [last.args EXCEPT !.text = <<>>, !.amount = last.val.amount],
                    base_to_format(ts, last.val.amount, last.args.date_format,
                                   last.args.neg_date_format, last.args.one_based_units),
                    TextValue(base_to_format(ts, last.val.amount, last.args.date_format,
                                   last.args.neg_date_format, last.args.one_based_units)),
                    last.args)
    /\ UNCHANGED <<ts, settled>>

\* lines 1133-1137: base_to_format_test, called as at lines 1139-1143 with a
\* date
base_to_format_date_test ==
    \E a \in WrittenDates :
        /\ last.op = "none"
        /\ last' = Call("base_to_format", a,
                        base_to_format(ts, a.amount, a.date_format, None, a.one_based_units),
                        TextValue(base_to_format(ts, a.amount, a.date_format, None,
                                                 a.one_based_units)),
                        NoArgs)
        /\ UNCHANGED <<ts, settled>>

\* lines 1148-1152: format_to_base_test, called with the text
\* base_to_format_test wrote for a date, the same format and the same
\* one-based units, over the date 0
format_to_base_written_test ==
    /\ last.op = "base_to_format"
    /\ last.from = NoArgs
    /\ last.ok
    /\ last' = Call("format_to_base",
                    [last.args EXCEPT !.text = last.val.text, !.amount = Dec(0)],
                    format_to_base(ts, last.val.text, last.args.date_format, Dec(0),
                                   None, last.args.one_based_units),
                    AmountValue(format_to_base(ts, last.val.text, last.args.date_format, Dec(0),
                                   None, last.args.one_based_units)),
                    last.args)
    /\ UNCHANGED <<ts, settled>>

\* src/time_system.py, lines 873-878: base_to_format_test, called with a
\* date
time_system_base_to_format_test ==
    \E a \in WrittenDates :
        /\ last.op = "none"
        /\ last' = Call("time_system.base_to_format", a,
                        time_system_base_to_format(ts, a.amount, a.date_format, a.one_based_units),
                        TextValue(time_system_base_to_format(ts, a.amount, a.date_format,
                                                             a.one_based_units)),
                        NoArgs)
        /\ UNCHANGED <<ts, settled>>

NextConv ==
    \/ test_unit_to_base
    \/ test_base_to_unit
    \/ format_to_base_test
    \/ base_to_format_test
    \/ time_system_format_to_base_test
    \/ base_to_format_date_test
    \/ time_system_base_to_format_test
    \/ format_to_base_written_test

SpecConv == ConvInit /\ [][NextConv]_vars

\* -------------------------------------------------------------------------
\* Arithmetic without rounding, used to state what the conversions are meant
\* to compute

ExactMul(x, y) == DNorm(x.s * y.s, MulDigits(x.c, y.c), x.e + y.e)

ExactAddAt(x, y, e) ==
    IF x.s = y.s THEN DNorm(x.s, AddDigits(Scaled(x, e), Scaled(y, e)), e)
    ELSE IF CmpDigits(Scaled(x, e), Scaled(y, e)) >= 0
        THEN DNorm(x.s, SubDigits(Scaled(x, e), Scaled(y, e)), e)
    ELSE DNorm(y.s, SubDigits(Scaled(y, e), Scaled(x, e)), e)

ExactAdd(x, y) == ExactAddAt(x, y, Min2(x.e, y.e))

\* the remainder r of the floored division of x by y > 0: 0 <= r < y
FloorRemainder(s, r, Y, e) ==
    IF s = -1 /\ r # <<>> THEN DNorm(1, SubDigits(Y, r), e) ELSE DNorm(1, r, e)

ExactModAt(x, y, e) ==
    FloorRemainder(x.s, DivModDigits(Scaled(x, e), Scaled(y, e)).r, Scaled(y, e), e)

ExactMod(x, y) == ExactModAt(x, y, Min2(x.e, y.e))

RECURSIVE ExactSum(_, _)
ExactSum(seq, i) == IF i > Len(seq) THEN DZero ELSE ExactAdd(seq[i], ExactSum(seq, i + 1))

\* the product of the interval amounts of the exceptions, the one of
\* exception skip left out (skip = 0: none left out)
RECURSIVE IntervalProduct(_, _, _)
IntervalProduct(exceptions, i, skip) ==
    IF i > Len(exceptions) THEN Dec(1)
    ELSE IF i = skip THEN IntervalProduct(exceptions, i + 1, skip)
    ELSE ExactMul(exceptions[i].interval_amount, IntervalProduct(exceptions, i + 1, skip))

\* -------------------------------------------------------------------------
\* Properties of the conversions (specification SpecConv)

\* the ExactDivision a date format names, and its corrected lengths at a date
DateDiv(a) ==
    CHOOSE div \in {Month, Season} : a.date_format = div \o <<"/">> \o Day \o <<"/">> \o Year

CorrectedLengths(date, a) == get_exact_div_offsets(ts, date, DateDiv(a))

DaysInBase(d) == to_base(ts, ts.units_by_name[Day], Dec(d))

\* a date text is well formed when it names a subdivision of the division
\* and a day of that subdivision, as long as the subdivision is at the date
WellFormedDate(a, date) ==
    /\ a \in DateInputs
    /\ \E m \in 1..MaxMonth, d \in DayChoices, y \in YearChoices :
        /\ a.text = DateText(m, d, y)
        /\ m <= Len(CorrectedLengths(date, a))
        /\ DLt(DaysInBase(d - 1), CorrectedLengths(date, a)[m])

WellFormed(a, date) ==
    \/ a \in MainInputs
    \/ a \in PartialInputs
    \/ WellFormedDate(a, date)

\* C1: round trip.  On a compiled system, a well-formed text S that matches
\* the format F, read with format_to_base(S, F, 0) and written back with
\* base_to_format under the same format and the same one-based units, is S
\* again.
RoundTrip ==
    (/\ last.op = "base_to_format"
     /\ last.from.amount = Dec(0)
     /\ WellFormed(last.from, last.args.amount))
        => (last.ok /\ last.val.text = last.from.text)

\* C2: unit inverse.  After a successful compile(), for every declared unit
\* u and every amount x, base_unit_to_unit(unit_to_base_unit(x, u), u) is x
\* exactly.
UnitInverse ==
    last.op = "base_unit_to_unit" => (last.ok /\ last.val.amount = last.from.amount)

\* what one unit u is in base units, times the intervals of its exceptions
AmortizedLeft(u) ==
    ExactMul(to_base(ts, u, Dec(1)), IntervalProduct(RelExceptions(ts, u), 1, 0))

\* the nominal amount in base units plus, for every exception of u, what it
\* adds divided by its interval; all times the intervals of the exceptions
AmortizedRight(u, rel) ==
    ExactAdd(ExactMul(to_base(ts, ts.parent_unit[u], ts.units[u].conversion_factor),
                      IntervalProduct(rel, 1, 0)),
             ExactSum([k \in 1..Len(rel) |->
                        ExactMul(to_base(ts, ts.units_by_name[rel[k].add_amount_unit_name],
                                         rel[k].add_amount),
                                 IntervalProduct(rel, 1, k))], 1))

\* Decimal('365.2425')
GregorianYearInDays == [s |-> 1, c |-> <<3, 6, 5, 2, 4, 2, 5>>, e |-> -4]

\* C3: amortized working factor.  After a successful compile(), one unit u
\* with parent p is, in base units, p.to_base(nominal factor of u) plus the
\* sum over the exceptions e whose interval unit is u of
\* add_unit(e).to_base(add_amount(e)) / interval_amount(e).  In the
\* Gregorian system a Year is 31556952 Seconds, 31556952 Seconds are 1 Year,
\* and the working factor of Year is 365.2425.
AmortizedWorkingFactor ==
    /\ \A u \in 1..Len(ts.units) :
        ts.parent_unit[u] # NoUnit
            => AmortizedLeft(u) = AmortizedRight(u, RelExceptions(ts, u))
    /\ ts = greg_calander =>
        /\ to_base(ts, ts.units_by_name[Year], Dec(1)) = Dec(31556952)
        /\ from_base(ts, ts.units_by_name[Year], Dec(31556952)) = Dec(1)
        /\ ts.working[ts.units_by_name[Year]] = GregorianYearInDays

\* C4: leap-boundary rollover.  In the Gregorian system with Month and Day
\* one-based, "2/29/2100" read and written back with Month/Day/Year is
\* "3/1/2100"; in general a text whose day index equals the corrected length
\* of the subdivision it names is written back as the first day of the next
\* subdivision.
LeapBoundaryRollover ==
    (last.op = "base_to_format" /\ last.from \in DateInputs) =>
        \A m \in 1..MaxMonth, d \in DayChoices, y \in YearChoices :
            (/\ last.from.text = DateText(m, d, y)
             /\ m < Len(CorrectedLengths(last.args.amount, last.from))
             /\ DaysInBase(d - 1) = CorrectedLengths(last.args.amount, last.from)[m])
                => (last.ok /\ last.val.text = DateText(m + 1, 1, y))

\* the unit a partial format names, in base units
PartialUnitInBase(a) ==
    to_base(ts, ts.units_by_name[CHOOSE u \in {Day, Year} : a.date_format = PartialFormat(u)], Dec(1))

\* C5: partial update.  For a unit u, a value v >= 0 and an original date of
\* any sign, r = format_to_base(":v:", ":u:", original) has the remainder of
\* the original modulo u.to_base(1): what is finer than u is kept.
PartialUpdate ==
    (last.op = "format_to_base" /\ last.args \in PartialInputs) =>
        /\ last.ok
        /\ ExactMod(last.val.amount, PartialUnitInBase(last.args))
            = ExactMod(last.args.amount, PartialUnitInBase(last.args))

\* -------------------------------------------------------------------------
\* Properties of the life cycle (specification Spec)

\* C6: compile idempotence.  compile() called again with no add-operation
\* since the last successful compile() succeeds and leaves every working
\* conversion factor, every parent link and every children list as they
\* were.
CompileIdempotent ==
    [][(settled /\ last'.op = "compile")
        => (/\ last'.ok
            /\ ts'.working = ts.working
            /\ ts'.parent_unit = ts.parent_unit
            /\ ts'.children = ts.children)]_vars

\* compile() was called on a system that the previous compile() had left
\* with an amortized factor and a child
CompiledTwice ==
    /\ last.op = "compile"
    /\ last.ok
    /\ last.pre.settled
    /\ \E u \in 1..Len(ts.units) :
        /\ ts.children[u] # <<>>
        /\ \E c \in 1..Len(ts.units) : ts.working[c] # ts.units[c].conversion_factor

\* C7: conversions require the compiled state.  While the compiled flag is
\* false, each of unit_for_unit_name, unit_to_base_unit, base_unit_to_unit,
\* base_to_format and format_to_base fails and leaves the TimeSystem as it
\* was.
ConversionsRequireCompiled ==
    [][(last'.op \in ConversionOps /\ ~ts.compiled) => (~last'.ok /\ ts' = ts)]_vars

\* a conversion was refused on a system that was compiled and then changed:
\* its name indexes are still filled
RefusedAfterAdd ==
    /\ last.op \in ConversionOps
    /\ ~last.pre.compiled
    /\ ~last.ok
    /\ Day \in DOMAIN ts.units_by_name
    /\ ts.working[ts.units_by_name[Day]] # NoAttr

\* C8: mutation invalidates compilation.  After a successful add_unit,
\* add_exception or add_exact_division the compiled flag is false, and it
\* stays false, every conversion failing, until a compile() succeeds.
MutationInvalidates ==
    /\ (last.op \in {"add_unit", "add_exception", "add_exact_division"} /\ last.ok)
        => ~ts.compiled
    /\ ts.compiled => settled
    /\ (last.op \in ConversionOps /\ ~last.pre.settled) => ~last.ok

\* C9: a failed compile is atomic.  When compile() aborts on a definition
\* that breaks an invariant, the compiled flag is false afterwards, no
\* working factor has been committed, and no conversion succeeds.
FailedCompileAtomic ==
    [][/\ (last'.op = "compile" /\ ~last'.ok)
            => (~ts'.compiled /\ ts'.working = ts.working)
       /\ (last.op = "compile" /\ ~last.ok /\ last'.op \in ConversionOps)
            => ~last'.ok]_vars

\* C10: add_repeating_division with a name and a unit returns normally,
\* appends one RepeatingDivision and resets the compiled flag.
AddRepeatingDivisionAppends ==
    [][last'.op = "add_repeating_division"
        => (/\ last'.ok
            /\ Len(ts'.repeating_divs) = Len(ts.repeating_divs) + 1
            /\ ~ts'.compiled)]_vars

\* -------------------------------------------------------------------------
\* Declarations that compile() has to judge: a system is declared piece by
\* piece from the menus below, then compiled, then asked for a text (how
\* declarations and compilations alternate is what Spec explores)

GHOST == "Ghost"
OFF == "Off"

\* the second system's units; Second, a unit without a parent like Hour;
\* Week, its own parent; Month under Week
DeclUnitMenu ==
    << <<Hour, Dec(1), None>>, <<Day, Dec(24), Hour>>, <<Year, Dec(30), Day>>,
       <<Second, Dec(1), None>>, <<Week, Dec(7), Week>>, <<Month, Dec(4), Week>> >>

\* Leap; Drift, which adds the unit of its own interval; Off, which adds a
\* unit that is not between Day and the base unit
DeclExceptionMenu ==
    << <<LEAP, Dec(3), Year, Dec(1), Day>>, <<DRIFT, Dec(2), Day, Dec(1), Day>>,
       <<OFF, Dec(2), Day, Dec(1), Year>> >>

\* Season as in the second system; Season without a correction; Season with
\* a correction for an exception nobody declares; Season with a correction
\* of a subdivision it does not have; a division with the name of a unit
DeclDivisionMenu ==
    << <<Season, Year, Day, << <<"Wet", 10>>, <<"Dry", 20>> >>, << <<LEAP, "Dry">> >> >>,
       <<Season, Year, Day, << <<"Wet", 10>>, <<"Dry", 20>> >>, << >> >>,
       <<Season, Year, Day, << <<"Wet", 10>>, <<"Dry", 20>> >>,
            << <<LEAP, "Dry">>, <<GHOST, "Dry">> >> >>,
       <<Season, Year, Day, << <<"Wet", 10>>, <<"Dry", 20>> >>, << <<LEAP, "Fog">> >> >>,
       <<Day, Year, Day, << <<"Wet", 10>>, <<"Dry", 20>> >>, << <<LEAP, "Dry">> >> >> >>

\* how many declarations one TimeSystem receives, of each kind and in all
MaxDeclUnits == 3
MaxDeclExceptions == 2
MaxDeclDivs == 2
MaxDeclarations == 5

Declarations(t) == Len(t.units) + Len(t.exceptions) + Len(t.exact_divs)

\* nothing but declarations has been called yet
Declaring == last.op \in AddOps \cup {"none"}

\* add_unit(name, conversion_factor, parent_unit_name)
decl_add_unit ==
    /\ Len(ts.units) < MaxDeclUnits
    /\ Declarations(ts) < MaxDeclarations
    /\ Declaring
    /\ \E i \in 1..Len(DeclUnitMenu) :
        LET out == AddUnit(ts, DeclUnitMenu[i][1], DeclUnitMenu[i][2], DeclUnitMenu[i][3])
        IN  /\ ts' = out.ts
            /\ last' = Call("add_unit", Declared(i), out, NoValue, NoArgs)
            /\ settled' = (settled /\ ~out.ok)

\* add_exception(name, interval_amount, interval_amount_unit_name,
\*               add_amount, add_amount_unit_name)
decl_add_exception ==
    /\ Len(ts.exceptions) < MaxDeclExceptions
    /\ Declarations(ts) < MaxDeclarations
    /\ Declaring
    /\ \E i \in 1..Len(DeclExceptionMenu) :
        LET e == DeclExceptionMenu[i]
            out == AddException(ts, e[1], e[2], e[3], e[4], e[5])
        IN  /\ ts' = out.ts
            /\ last' = Call("add_exception", Declared(i), out, NoValue, NoArgs)
            /\ settled' = (settled /\ ~out.ok)

\* add_exact_division(name, name_of_unit_dividing, name_of_unit_dividing_into,
\*                    division_defs, division_corrections)
decl_add_exact_division ==
    /\ Len(ts.exact_divs) < MaxDeclDivs
    /\ Declarations(ts) < MaxDeclarations
    /\ Declaring
    /\ \E i \in 1..Len(DeclDivisionMenu) :
        LET d == DeclDivisionMenu[i]
            out == AddExactDivision(ts, d[1], d[2], d[3], d[4], d[5])
        IN  /\ ts' = out.ts
            /\ last' = Call("add_exact_division", Declared(i), out, NoValue, NoArgs)
            /\ settled' = (settled /\ ~out.ok)

\* compile()
decl_compile ==
    LET out == Compile(ts)
    IN  /\ ts' = out.ts
        /\ last' = Call("compile", NoArgs, out, NoValue, NoArgs)
        /\ settled' = out.ok

\* the formats asked for: the division with Day and Year, and Day with Year
DeclFormats == {SEASON_FORMAT, Day \o <<"/">> \o Year}

\* the date asked for: 15 Days in Hours
DeclDate == Dec(360)

\* base_to_format(date, date_format)
decl_base_to_format ==
    \E f \in DeclFormats :
        /\ last' = Call("base_to_format",
                        [NoArgs EXCEPT !.amount = DeclDate, !.date_format = f],
                        base_to_format(ts, DeclDate, f, None, {}),
                        TextValue(base_to_format(ts, DeclDate, f, None, {})), NoArgs)
        /\ UNCHANGED <<ts, settled>>

NextDecl ==
    \/ decl_add_unit
    \/ decl_add_exception
    \/ decl_add_exact_division
    \/ decl_compile
    \/ decl_base_to_format

SpecDecl == TimeSystemInit /\ [][NextDecl]_vars

\* -------------------------------------------------------------------------
\* Properties of compile() as the judge of declarations (specification
\* SpecDecl)

\* the declared units without a parent
Parentless(t) == {i \in 1..Len(t.units) : t.units[i].parent_unit_name = None}

\* following the declared parent names from the unit called name ends, after
\* at most fuel steps, at a unit without a parent
RECURSIVE ChainEnds(_, _, _)
ChainEnds(t, name, fuel) ==
    \E i \in 1..Len(t.units) :
        /\ t.units[i].name = name
        /\ \/ t.units[i].parent_unit_name = None
           \/ fuel > 0 /\ ChainEnds(t, t.units[i].parent_unit_name, fuel - 1)

\* C11: the unit graph is a tree after compile.  compile() succeeds only if
\* exactly one declared unit has no parent, every parent name is declared,
\* and the parent chain of every unit ends at that base unit; with no
\* parentless unit, with several, or with a parent that is not declared,
\* compile() fails.
UnitGraphIsTree ==
    (last.op = "compile" /\ last.ok) =>
        /\ Cardinality(Parentless(ts)) = 1
        /\ \A i \in 1..Len(ts.units) :
            /\ ts.units[i].parent_unit_name # None
                => ts.units[i].parent_unit_name \in Range(UnitNames(ts))
            /\ ChainEnds(ts, ts.units[i].name, Len(ts.units))

\* the unit called target is met when the declared parent names are
\* followed from the parent of the unit called name, in at most fuel steps
RECURSIVE BelowOnChain(_, _, _, _)
BelowOnChain(t, name, target, fuel) ==
    \E i \in 1..Len(t.units) :
        /\ t.units[i].name = name
        /\ t.units[i].parent_unit_name # None
        /\ \/ t.units[i].parent_unit_name = target
           \/ fuel > 0 /\ BelowOnChain(t, t.units[i].parent_unit_name, target, fuel - 1)

\* the unit an exception adds is declared, is not the unit of its interval,
\* and lies between that unit and the base unit
AddUnitOnLineage(t, exception) ==
    /\ exception.add_amount_unit_name \in Range(UnitNames(t))
    /\ exception.add_amount_unit_name # exception.interval_amount_unit_name
    /\ BelowOnChain(t, exception.interval_amount_unit_name,
                    exception.add_amount_unit_name, Len(t.units))

\* C12: the exception lineage rule.  compile() fails when some exception
\* adds the unit of its own interval, an undeclared unit, or a unit that is
\* not on the lineage of its interval unit toward the base unit; after a
\* compile() that succeeded, the unit every exception adds lies on the
\* lineage of its interval unit and differs from it.
ExceptionLineageRule ==
    (last.op = "compile" /\ last.ok) =>
        \A x \in 1..Len(ts.exceptions) : AddUnitOnLineage(ts, ts.exceptions[x])

\* compile() refused a system whose units are a chain from one base unit and
\* whose only fault is an exception that breaks the rule
LineageRefused ==
    /\ last.op = "compile"
    /\ ~last.ok
    /\ UnitNames(ts) = <<Hour, Day, Year>>
    /\ ts.exact_divs = <<>>
    /\ Len(ts.exceptions) = 1
    /\ ~AddUnitOnLineage(ts, ts.exceptions[1])

\* every correction of every ExactDivision names a declared exception and a
\* subdivision of its division
CorrectionsDeclared(t) ==
    \A d \in 1..Len(t.exact_divs) : \A c \in 1..Len(t.exact_divs[d].div_corrections) :
        /\ t.exact_divs[d].div_corrections[c][1] \in Range(ExceptionNames(t))
        /\ \E k \in 1..Len(t.exact_divs[d].div_defs) :
            t.exact_divs[d].div_defs[k][1] = t.exact_divs[d].div_corrections[c][2]

\* C13: correction references are validated at compile time.  compile()
\* fails if a correction of an ExactDivision names an exception that was
\* never declared or a label that is no subdivision of the division; hence
\* after a compile() that succeeded no base_to_format call fails in the
\* computation of the offsets.
CorrectionsValidated ==
    /\ (last.op = "compile" /\ last.ok) => CorrectionsDeclared(ts)
    /\ (last.op = "base_to_format" /\ last.pre.settled) => last.ok

\* the exception adds a declared unit that lies below the unit the division
\* divides, on its lineage
AltersDividedUnit(t, div, exception) ==
    /\ exception.add_amount_unit_name \in Range(UnitNames(t))
    /\ BelowOnChain(t, div.name_of_unit_dividing, exception.add_amount_unit_name,
                    Len(t.units))

\* C14: the exception coverage rule.  compile() fails if an exception adds
\* a unit that lies below the unit an ExactDivision divides, on its lineage,
\* and the division has no correction naming the exception; after a
\* compile() that succeeded every such exception is covered by a correction
\* in every such ExactDivision.
ExceptionCoverageRule ==
    (last.op = "compile" /\ last.ok) =>
        \A d \in 1..Len(ts.exact_divs) : \A x \in 1..Len(ts.exceptions) :
            AltersDividedUnit(ts, ts.exact_divs[d], ts.exceptions[x])
                => \E c \in 1..Len(ts.exact_divs[d].div_corrections) :
                    ts.exact_divs[d].div_corrections[c][1] = ts.exceptions[x].name

\* compile() refused a system whose only fault is a Season without the
\* correction for Leap
CoverageRefused ==
    /\ last.op = "compile"
    /\ ~last.ok
    /\ UnitNames(ts) = <<Hour, Day, Year>>
    /\ ExceptionNames(ts) = <<LEAP>>
    /\ Len(ts.exact_divs) = 1
    /\ ts.exact_divs[1].div_corrections = <<>>
    /\ AltersDividedUnit(ts, ts.exact_divs[1], ts.exceptions[1])

\* no name occurs twice in the sequence
NoDuplicates(names) == \A i, j \in 1..Len(names) : names[i] = names[j] => i = j

\* units, ExactDivisions and RepeatingDivisions share one namespace, the
\* exceptions have their own
NamespaceUnique(t) ==
    /\ NoDuplicates(UnitNames(t) \o ExactDivNames(t) \o RepeatingDivNames(t))
    /\ NoDuplicates(ExceptionNames(t))

\* C15: name uniqueness.  After a compile() that succeeded no two of the
\* units, ExactDivisions and RepeatingDivisions share a name and no two
\* exceptions share a name: compile() fails on a duplicate exception name,
\* on a duplicate division name and on a division with the name of a unit.
\* add_unit with a name already used by a unit fails at once and leaves the
\* TimeSystem, its unit list and its compiled flag, as it was.
NameUniqueness ==
    [][/\ (last'.op = "compile" /\ last'.ok) => NamespaceUnique(ts')
       /\ (/\ last'.op = "add_unit"
           /\ DeclUnitMenu[last'.args.declaration][1] \in Range(UnitNames(ts)))
            => (~last'.ok /\ ts' = ts)]_vars

\* -------------------------------------------------------------------------
\* The negative format of format_to_base

\* the literal skeleton of a text: its tokens, the numbers left blank
TextSkeleton(split_num) ==
    [i \in 1..Len(split_num) |-> IF IsNumberToken(split_num[i]) THEN <<>> ELSE split_num[i]]

\* the literal skeleton of a format: its tokens, the names of units and
\* divisions left blank
FormatSkeleton(t, split) ==
    [i \in 1..Len(split) |->
        IF split[i] \in DOMAIN t.units_by_name \/ IsDivToken(t, split[i]) THEN <<>>
        ELSE split[i]]

\* the text has the literal skeleton of the format
SkeletonMatches(t, text, format) ==
    TextSkeleton(SplitNumbers(text)) = FormatSkeleton(t, split_date_format(t, format, <<>>))

\* the total format_to_base gives for the text read with one format alone
TotalWith(t, a, format) ==
    format_to_base(t, a.text, format, a.amount, None, a.one_based_units)

\* C16: when a negative format is given to format_to_base, a text that has
\* the literal skeleton of the positive format alone gives the total as it
\* is, a text that has the skeleton of the negative format alone gives the
\* total multiplied by -1, and a text that has both skeletons or neither
\* makes the call fail
NegativeFormatSelection ==
    (last.op = "format_to_base" /\ last.args.neg_date_format \notin {None, <<>>}) =>
        LET pos == SkeletonMatches(ts, last.args.text, last.args.date_format)
            neg == SkeletonMatches(ts, last.args.text, last.args.neg_date_format)
        IN  /\ (pos /\ ~neg) =>
                /\ last.ok
                /\ TotalWith(ts, last.args, last.args.date_format).ok
                /\ last.val.amount = TotalWith(ts, last.args, last.args.date_format).val
            /\ (neg /\ ~pos) =>
                /\ last.ok
                /\ TotalWith(ts, last.args, last.args.neg_date_format).ok
                /\ last.val.amount
                    = DMul(TotalWith(ts, last.args, last.args.neg_date_format).val, Dec(-1))
            /\ (pos = neg) => ~last.ok

\* a text that has the skeleton of the negative format alone was read, and
\* the total is below zero
NegativeFormatSelected ==
    /\ last.op = "format_to_base"
    /\ last.args.neg_date_format \notin {None, <<>>}
    /\ ~SkeletonMatches(ts, last.args.text, last.args.date_format)
    /\ SkeletonMatches(ts, last.args.text, last.args.neg_date_format)
    /\ last.ok
    /\ last.val.amount.s = -1
    /\ last.val.amount.c # <<>>

\* -------------------------------------------------------------------------
\* The sign of the text base_to_format writes

\* the last call was base_to_format of a date below zero
NegativeDateWritten ==
    /\ last.op = "base_to_format"
    /\ last.args.amount.s = -1
    /\ last.args.amount.c # <<>>

\* base_to_format of the date of the last call with its sign dropped, written
\* with one format alone
WrittenPositive(format) ==
    base_to_format(ts, DNeg(last.args.amount), format, None, last.args.one_based_units)

\* C17: for a date t below zero, base_to_format with a negative format N
\* writes what base_to_format writes for -t with N as its format, and
\* base_to_format with no negative format writes the marker "-" followed by
\* what it writes for -t with the same format
SignOfOutput ==
    NegativeDateWritten =>
        IF last.args.neg_date_format # None
            THEN WrittenPositive(last.args.neg_date_format).ok =>
                    /\ last.ok
                    /\ last.val.text = WrittenPositive(last.args.neg_date_format).val
        ELSE WrittenPositive(last.args.date_format).ok =>
                    /\ last.ok
                    /\ last.val.text = <<"-">> \o WrittenPositive(last.args.date_format).val

\* -------------------------------------------------------------------------
\* The "-" a text begins with, in src/time_system.py

\* the text with the "-" it begins with replaced by n of them
RECURSIVE WithLeadingMinus(_, _)
WithLeadingMinus(text, n) ==
    IF text # <<>> /\ Head(text) = "-" THEN WithLeadingMinus(Tail(text), n)
    ELSE [i \in 1..n |-> "-"] \o text

\* the total of the last call of format_to_base of src/time_system.py: what
\* it returns for the same text beginning with as many "-" as the format
MinusTotal ==
    time_system_format_to_base(ts,
        WithLeadingMinus(last.args.text, minus_cnt(last.args.date_format)),
        last.args.date_format, last.args.amount, last.args.one_based_units)

TokensMismatch(t, text, format) ==
    \/ Len(SplitNumbers(text)) # Len(split_date_format(t, format, <<>>))
    \/ \E i \in 1..Len(SplitNumbers(text)) :
        /\ ~IsNumberToken(SplitNumbers(text)[i])
        /\ SplitNumbers(text)[i] # split_date_format(t, format, <<>>)[i]

\* the text is in neither the format nor, when one is given, the negative
\* format
FormatMismatch ==
    /\ TokensMismatch(ts, last.args.text, last.args.date_format)
    /\ last.args.neg_date_format # None
        => TokensMismatch(ts, last.args.text, last.args.neg_date_format)

\* C19: format_to_base, with or without a negative format, fails whenever
\* the tokens of the text and of the format differ in number or a literal
\* token of the text differs from the token of the format at its position
FormatMismatchRejected ==
    (last.op = "format_to_base" /\ FormatMismatch) => ~last.ok

\* -------------------------------------------------------------------------
\* A unit named twice in one format

\* the positions of the format where a unit is named that an earlier
\* position names
RepeatedAt(t, split) ==
    {i \in 1..Len(split) :
        /\ split[i] \in DOMAIN t.units_by_name
        /\ \E j \in 1..(i - 1) : split[j] = split[i]}

\* two positions name the same unit and the text gives it two values
TwoValues(t, split_num, split) ==
    \E i \in RepeatedAt(t, split) : \E j \in 1..(i - 1) :
        /\ split[j] = split[i]
        /\ DSub(ParseDecimal(split_num[i]), ParseDecimal(split_num[j])).c # <<>>

\* the tokens at the positions kept, in their order
KeptTokens(tokens, keep) ==
    [k \in 1..Len(SelectSeq([i \in 1..Len(tokens) |-> i], LAMBDA i : i \in keep)) |->
        tokens[SelectSeq([i \in 1..Len(tokens) |-> i], LAMBDA i : i \in keep)[k]]]

\* the tokens joined into one string, with every later naming of a unit
\* left out, and the literal token before it
NamedOnce(t, tokens, split) ==
    Concat(KeptTokens(tokens,
        {i \in 1..Len(split) :
            /\ i \notin RepeatedAt(t, split)
            /\ ~(i + 1 \in RepeatedAt(t, split) /\ split[i] \notin DOMAIN t.units_by_name)}), 1)

\* the last call was format_to_base with a format that names a unit twice,
\* no negative format, and a text with a number for every token of the
\* format that names a unit
UnitNamedTwice ==
    /\ last.op = "format_to_base"
    /\ last.args.neg_date_format = None
    /\ RepeatedAt(ts, split_date_format(ts, last.args.date_format, <<>>)) # {}
    /\ Len(SplitNumbers(last.args.text)) = Len(split_date_format(ts, last.args.date_format, <<>>))
    /\ \A i \in 1..Len(SplitNumbers(last.args.text)) :
        split_date_format(ts, last.args.date_format, <<>>)[i] \in DOMAIN ts.units_by_name
            => IsNumberToken(SplitNumbers(last.args.text)[i])

\* format_to_base of the text and the format of the last call, each unit
\* named once
ReadNamedOnce ==
    format_to_base(ts,
        NamedOnce(ts, SplitNumbers(last.args.text),
                  split_date_format(ts, last.args.date_format, <<>>)),
        NamedOnce(ts, split_date_format(ts, last.args.date_format, <<>>),
                  split_date_format(ts, last.args.date_format, <<>>)),
        last.args.amount, None, last.args.one_based_units)

\* C20: a call of format_to_base whose format names a unit twice fails when
\* the text gives the unit two different values, and when the text gives it
\* the same value twice the unit is counted once: the call returns what the
\* call with the unit named a single time returns
RepeatedUnitConsistency ==
    UnitNamedTwice =>
        IF TwoValues(ts, SplitNumbers(last.args.text),
                     split_date_format(ts, last.args.date_format, <<>>))
            THEN ~last.ok
        ELSE /\ last.ok = ReadNamedOnce.ok
             /\ last.ok => DSub(last.val.amount, ReadNamedOnce.val).c = <<>>

\* a text that gives the unit named twice the same value twice, written in
\* two ways, was read
RepeatedUnitRead ==
    /\ UnitNamedTwice
    /\ ~TwoValues(ts, SplitNumbers(last.args.text),
                  split_date_format(ts, last.args.date_format, <<>>))
    /\ \E i \in 1..Len(last.args.text) : last.args.text[i] = "."
    /\ last.ok
    /\ last.val.amount.c # <<>>

\* -------------------------------------------------------------------------
\* Names that begin with another name: systems that declare Day and
\* DayOfWeek in either order, or the unit Day and the division DayHalf, and
\* the dates written with formats that name them

DayOfWeek == Day \o <<"O", "f", "W", "e", "e", "k">>
DayHalf == Day \o <<"H", "a", "l", "f">>

\* add_unit called for each declaration in turn
RECURSIVE DeclareUnits(_, _)
DeclareUnits(t, decls) ==
    IF decls = <<>> THEN t
    ELSE DeclareUnits(AddUnit(t, decls[1][1], decls[1][2], decls[1][3]).ts, Tail(decls))

PrefixSystems ==
    {Compile(DeclareUnits(NewTimeSystem, decls)).ts :
        decls \in {<< <<Hour, Dec(1), None>>, <<Day, Dec(24), Hour>>, <<DayOfWeek, Dec(2), Day>> >>,
                   << <<Hour, Dec(1), None>>, <<DayOfWeek, Dec(2), Day>>, <<Day, Dec(24), Hour>> >>,
                   << <<DayOfWeek, Dec(2), Day>>, <<Day, Dec(24), Hour>>, <<Hour, Dec(1), None>> >>}}
    \cup {Compile(AddExactDivision(
            DeclareUnits(NewTimeSystem, << <<Hour, Dec(1), None>>, <<Day, Dec(24), Hour>> >>),
            DayHalf, Day, Hour, << <<"AM", 12>>, <<"PM", 12>> >>, <<>>).ts).ts}

PrefixFormats ==
    {DayOfWeek \o <<"/">> \o Day, Day \o <<"/">> \o DayOfWeek, <<":">> \o DayOfWeek \o <<":">>,
     DayHalf \o <<"/">> \o Day, Day \o <<":">> \o Hour}

PrefixDates == {Dec(0), Dec(5), Dec(30), Dec(100), Dec(1000), Half}

PrefixInit ==
    /\ ts \in PrefixSystems
    /\ last = NoCall
    /\ settled = TRUE

\* base_to_format called once on the compiled system
prefix_base_to_format ==
    \E f \in PrefixFormats, d \in PrefixDates :
        /\ last.op = "none"
        /\ last' = Call("base_to_format",
                        [NoArgs EXCEPT !.date_format = f, !.amount = d],
                        base_to_format(ts, d, f, None, {}),
                        TextValue(base_to_format(ts, d, f, None, {})), NoArgs)
        /\ UNCHANGED <<ts, settled>>

NextPrefix == prefix_base_to_format

SpecPrefix == PrefixInit /\ [][NextPrefix]_vars

\* the names declared in the compiled system
DeclaredNames(t) == DOMAIN t.units_by_name \cup DOMAIN t.exact_divs_by_name

\* the position in the string where token k begins
RECURSIVE TokenStart(_, _)
TokenStart(tokens, k) ==
    IF k = 1 THEN 1 ELSE TokenStart(tokens, k - 1) + Len(tokens[k - 1])

\* every occurrence of the name in the format is one token of its split
OneToken(t, name, format) ==
    \A p \in 1..Len(format) :
        IsPrefixAt(name, format, p) =>
            \E k \in 1..Len(split_date_format(t, format, <<>>)) :
                /\ TokenStart(split_date_format(t, format, <<>>), k) = p
                /\ split_date_format(t, format, <<>>)[k] = name

\* n1 is a proper prefix of n2
ProperPrefix(n1, n2) == Len(n1) < Len(n2) /\ IsPrefixAt(n1, n2, 1)

\* C21: when a declared name is a proper prefix of another declared name,
\* every occurrence of the longer name in a format is split off as the one
\* token of that name, whatever the order of the declarations
LongestNameMatched ==
    last.op = "base_to_format" =>
        \A n2 \in DeclaredNames(ts) :
            (\E n1 \in DeclaredNames(ts) : ProperPrefix(n1, n2))
                => OneToken(ts, n2, last.args.date_format)

\* -------------------------------------------------------------------------
\* The offsets of the subdivisions of an ExactDivision at a date

\* the last call was a conversion between a text and a date that succeeded
DateConverted ==
    /\ last.op \in {"format_to_base", "base_to_format"}
    /\ last.ok

\* the date of that conversion
ConvertedDate ==
    IF last.op = "format_to_base" THEN last.val.amount ELSE last.args.amount

\* floor(interval_unit.from_base(date)), for a date that is not below zero
IntervalNumber(t, exception, date) ==
    DInt(from_base(t, t.units_by_name[exception.interval_amount_unit_name], date))

\* the exception is active for the instance of its interval unit that holds
\* the date
ActiveAt(t, exception, date) ==
    \E n \in {IntervalNumber(t, exception, date)} :
        IntModSmall(n, ToMachine(DInt(exception.interval_amount))) = 0

\* the sum of add_unit.to_base(add_amount) over the corrections of the label,
\* from correction c on, whose exception is active at the date
RECURSIVE CorrectionSum(_, _, _, _, _)
CorrectionSum(t, div, label, date, c) ==
    IF c > Len(div.div_corrections) THEN DZero
    ELSE DAdd(IF /\ div.div_corrections[c][2] = label
                 /\ ActiveAt(t, t.exceptions[t.exceptions_by_name[div.div_corrections[c][1]]], date)
                THEN to_base(t,
                        t.units_by_name[t.exceptions[t.exceptions_by_name[
                            div.div_corrections[c][1]]].add_amount_unit_name],
                        t.exceptions[t.exceptions_by_name[div.div_corrections[c][1]]].add_amount)
              ELSE DZero,
              CorrectionSum(t, div, label, date, c + 1))

\* the offset of subdivision i at the date: its count of the unit divided
\* into, and the corrections of its label that are active
CorrectedOffset(t, div, i, date) ==
    DAdd(to_base(t, t.units_by_name[div.name_of_unit_dividing_into], Dec(div.div_defs[i][2])),
         CorrectionSum(t, div, div.div_defs[i][1], date, 1))

\* the days of February in year y of the Gregorian calendar
FebruaryDays(y) ==
    28 + (IF y % 4 = 0 THEN 1 ELSE 0) - (IF y % 100 = 0 THEN 1 ELSE 0)
       + (IF y % 400 = 0 THEN 1 ELSE 0)

\* the year that holds the date, in the Gregorian calendar of __main__
YearOf(date) ==
    CHOOSE y \in {ToMachine(n) :
                    n \in {DInt(q) : q \in {from_base(greg_calander,
                                                      greg_calander.units_by_name[Year], date)}}} : TRUE

\* C22: for a compiled system, an ExactDivision and a date that is not below
\* zero, the offset of every subdivision is its count converted to the base
\* unit plus the additions of exactly those of its corrections whose
\* exception is active at the date; in the Gregorian calendar February has
\* 28 + [y mod 4 = 0] - [y mod 100 = 0] + [y mod 400 = 0] days in year y
ExactOffsetsCorrected ==
    (DateConverted /\ ~DIsNeg(ConvertedDate)) =>
        /\ \A d \in 1..Len(ts.exact_divs) :
            \A offsets \in {get_exact_div_offsets(ts, ConvertedDate, ts.exact_divs[d].name)} :
                \A i \in 1..Len(ts.exact_divs[d].div_defs) :
                    \A corrected \in {CorrectedOffset(ts, ts.exact_divs[d], i, ConvertedDate)} :
                        DIsZero(DSub(offsets[i], corrected))
        /\ ts = greg_calander =>
            \A offsets \in {get_exact_div_offsets(ts, ConvertedDate, Month)} :
                \A y \in {YearOf(ConvertedDate)} :
                    DIsZero(DSub(offsets[2], to_base(ts, ts.units_by_name[Day], Dec(FebruaryDays(y)))))

\* a date of the year 2100 was converted in the Gregorian calendar: the
\* corrections of every 4 and of every 100 years are active, and February
\* has 28 days
CenturyFebruary ==
    /\ DateConverted
    /\ ts = greg_calander
    /\ ~DIsNeg(ConvertedDate)
    /\ YearOf(ConvertedDate) = 2100
    /\ ActiveAt(ts, ts.exceptions[1], ConvertedDate)
    /\ ActiveAt(ts, ts.exceptions[2], ConvertedDate)
    /\ ~ActiveAt(ts, ts.exceptions[3], ConvertedDate)
    /\ get_exact_div_offsets(ts, ConvertedDate, Month)[2] = to_base(ts, ts.units_by_name[Day], Dec(28))

\* -------------------------------------------------------------------------
\* The values base_to_format writes for the units of a format

\* the last call was base_to_format of a date that is not below zero, with a
\* format whose names are all units, and the text written has a token for
\* every token of the format
UnitsWritten ==
    /\ last.op = "base_to_format"
    /\ last.ok
    /\ ~DIsNeg(last.args.amount)
    /\ \A i \in 1..Len(split_date_format(ts, last.args.date_format, <<>>)) :
        ~IsDivToken(ts, split_date_format(ts, last.args.date_format, <<>>)[i])
    /\ Len(SplitNumbers(last.val.text)) = Len(split_date_format(ts, last.args.date_format, <<>>))

\* the units the format of the last call names
ReferencedUnits ==
    {ts.units_by_name[split_date_format(ts, last.args.date_format, <<>>)[i]] :
        i \in {j \in 1..Len(split_date_format(ts, last.args.date_format, <<>>)) :
                split_date_format(ts, last.args.date_format, <<>>)[j] \in DOMAIN ts.units_by_name}}

\* the size of a unit in base units
UnitSize(u) == to_base(ts, u, Dec(1))

\* the zero-based value written at position i of the text
SlotValue(i) ==
    IF split_date_format(ts, last.args.date_format, <<>>)[i] \in last.args.one_based_units
        THEN DSub(ParseDecimal(SplitNumbers(last.val.text)[i]), Dec(1))
    ELSE ParseDecimal(SplitNumbers(last.val.text)[i])

\* C23: base_to_format takes the units of the format from the largest to the
\* smallest in base units, so the zero-based value written for a unit that
\* is not the largest of the format, multiplied by the size of the unit, is
\* below the size of the next larger unit of the format
UnitsLargestFirst ==
    UnitsWritten =>
        \A i \in 1..Len(SplitNumbers(last.val.text)) :
            split_date_format(ts, last.args.date_format, <<>>)[i] \in DOMAIN ts.units_by_name =>
                \A w \in ReferencedUnits :
                    DLt(UnitSize(ts.units_by_name[split_date_format(ts, last.args.date_format, <<>>)[i]]),
                        UnitSize(w))
                    => DLt(DMul(SlotValue(i),
                                UnitSize(ts.units_by_name[
                                    split_date_format(ts, last.args.date_format, <<>>)[i]])),
                           UnitSize(w))

\* -------------------------------------------------------------------------
\* The names of a format in the text base_to_format writes

\* token i of the format names a unit or an ExactDivision
IsIdentifier(t, token) == token \in DOMAIN t.units_by_name \/ IsDivToken(t, token)

\* the text has a number for every identifier of the format and every
\* literal of the format as it is
Substituted(t, text, format) ==
    /\ Len(SplitNumbers(text)) = Len(split_date_format(t, format, <<>>))
    /\ \A i \in 1..Len(SplitNumbers(text)) :
        IF IsIdentifier(t, split_date_format(t, format, <<>>)[i])
            THEN IsNumberToken(SplitNumbers(text)[i])
        ELSE SplitNumbers(text)[i] = split_date_format(t, format, <<>>)[i]

\* the number written for every ExactDivision of the format is the index of
\* one of its subdivisions
IndexWritten(t, text, format, one_based_units) ==
    \A i \in 1..Len(SplitNumbers(text)) :
        IsDivToken(t, split_date_format(t, format, <<>>)[i]) =>
            /\ IsIntToken(SplitNumbers(text)[i])
            /\ ToMachine(ParseInt(SplitNumbers(text)[i]))
                    - (IF split_date_format(t, format, <<>>)[i] \in one_based_units THEN 1 ELSE 0)
                \in 0..(Len(DivOfToken(t, split_date_format(t, format, <<>>)[i]).div_defs) - 1)

\* C24: for a compiled system, a date that is not below zero and a format,
\* the text base_to_format returns has every unit and every ExactDivision
\* named by the format replaced by a number and every literal kept, and the
\* number written for an ExactDivision is the index of one of its
\* subdivisions
EveryIdentifierSubstituted ==
    (last.op = "base_to_format" /\ ~DIsNeg(last.args.amount)) =>
        /\ last.ok
        /\ Substituted(ts, last.val.text, last.args.date_format)
        /\ IndexWritten(ts, last.val.text, last.args.date_format, last.args.one_based_units)

\* -------------------------------------------------------------------------
\* An ExactDivision written together with the two units it lies between

\* the position of the first token of the split that is the name, 0 if none
PositionOf(split, name) ==
    IF \A i \in 1..Len(split) : split[i] # name THEN 0
    ELSE CHOOSE i \in 1..Len(split) : split[i] = name /\ \A j \in 1..(i - 1) : split[j] # name

\* the zero-based integer written at position i of the text
ZeroBased(out, split, i, one_based_units) ==
    ToMachine(ParseInt(out[i])) - (IF split[i] \in one_based_units THEN 1 ELSE 0)

\* the sum of the first k offsets
RECURSIVE OffsetsBefore(_, _)
OffsetsBefore(offsets, k) ==
    IF k = 0 THEN DZero ELSE DAdd(OffsetsBefore(offsets, k - 1), offsets[k])

\* the zero-based value base_to_format writes for the unit divided into when
\* the format names it and the unit divided, and not the ExactDivision
UndividedValue(t, date, div) ==
    ToMachine(ParseInt(SplitNumbers(
        base_to_format(t, date, div.name_of_unit_dividing_into \o <<"/">> \o div.name_of_unit_dividing,
                       None, {}).val)[1]))

\* for the ExactDivision at position p of the split: the text has the index
\* k of a subdivision there, and at position q the value of the unit divided
\* into less the offsets of the subdivisions before k, a value from 0 to
\* below the corrected count of subdivision k
SlotsConsistent(t, date, out, split, p, q, offsets, one_based_units) ==
    /\ Len(out) = Len(split)
    /\ IsIntToken(out[p])
    /\ IsIntToken(out[q])
    /\ ZeroBased(out, split, p, one_based_units) \in 0..(Len(offsets) - 1)
    /\ ZeroBased(out, split, q, one_based_units) >= 0
    /\ DLt(to_base(t, t.units_by_name[split[q]], Dec(ZeroBased(out, split, q, one_based_units))),
           offsets[ZeroBased(out, split, p, one_based_units) + 1])
    /\ ZeroBased(out, split, q, one_based_units)
        = UndividedValue(t, date, DivOfToken(t, split[p]))
            - ToMachine(DInt(from_base(t, t.units_by_name[split[q]],
                    OffsetsBefore(offsets, ZeroBased(out, split, p, one_based_units)))))

\* the last call was base_to_format of a date not below zero with a format
\* that names an ExactDivision at position p, the unit it divides, and the
\* unit it divides into at position q
DivisionWritten(p, q) ==
    /\ last.op = "base_to_format"
    /\ ~DIsNeg(last.args.amount)
    /\ p \in 1..Len(split_date_format(ts, last.args.date_format, <<>>))
    /\ IsDivToken(ts, split_date_format(ts, last.args.date_format, <<>>)[p])
    /\ PositionOf(split_date_format(ts, last.args.date_format, <<>>),
                  DivOfToken(ts, split_date_format(ts, last.args.date_format, <<>>)[p])
                        .name_of_unit_dividing) # 0
    /\ q # 0
    /\ q = PositionOf(split_date_format(ts, last.args.date_format, <<>>),
                      DivOfToken(ts, split_date_format(ts, last.args.date_format, <<>>)[p])
                            .name_of_unit_dividing_into)

\* C25: when a format names an ExactDivision together with the unit it
\* divides and the unit it divides into, for every date not below zero the
\* value written for the unit divided into is its value less the offsets of
\* the subdivisions before the one written, and lies from 0 to below the
\* corrected count of the subdivision written
DivisionSlotsConsistent ==
    \A p, q \in 0..5 :
        DivisionWritten(p, q) =>
            /\ last.ok
            /\ \A out \in {SplitNumbers(last.val.text)} :
                \A split \in {split_date_format(ts, last.args.date_format, <<>>)} :
                    \A offsets \in {get_exact_div_offsets(ts, last.args.amount, split[p])} :
                        SlotsConsistent(ts, last.args.amount, out, split, p, q, offsets,
                                        last.args.one_based_units)

\* -------------------------------------------------------------------------
\* C26: a text that gives the index g of a RepeatingDivision is read to a
\* total whose index in the cycle of the division is g

\* a text and its format naming the repeating division of the menu
RepeatingFormat == Week \o <<":">> \o Day
RepeatingText(g) == <<DigitChars[g + 1], ":", "0">>

\* the sum of the weights of the labels
RECURSIVE WeightSum(_, _)
WeightSum(defs, n) ==
    IF n = 0 THEN 0 ELSE defs[n][2] + WeightSum(defs, n - 1)

\* the cyclic index of a total: the whole units of name_of_unit_in the total
\* lies beyond the start of its repetition
CyclicIndex(t, d, total) ==
    LET unit_in == t.units_by_name[d[2]]
        div_total == to_base(t, unit_in, Dec(WeightSum(d[3], Len(d[3]))))
    IN  DInt(from_base(t, unit_in, DMod(total, div_total)))

\* C26 as stated: once add_repeating_division has been called with a
\* division over a declared unit and the definitions compile, a text giving
\* the index g of the division is read to a total whose cyclic index is g
RepeatingIndexReached ==
    [][\A i \in 1..Len(RepeatingMenu) :
        (/\ last'.op = "add_repeating_division"
         /\ last'.args = Declared(i)
         /\ Compile(ts').ok
         /\ RepeatingMenu[i][2] \in DOMAIN Compile(ts').ts.units_by_name)
        => \A g \in 0..(Len(RepeatingMenu[i][3]) - 1) :
            LET t == Compile(ts').ts
                out == format_to_base(t, RepeatingText(g), RepeatingFormat, Dec(0), None, {})
            IN  /\ out.ok
                /\ ToMachine(CyclicIndex(t, RepeatingMenu[i], out.val)) = g]_vars

\* -------------------------------------------------------------------------
\* The part of the original date format_to_base keeps

\* the units the format of the last call refers to: the units it names and
\* the units the ExactDivisions it names divide into
CarriedUnits ==
    ReferencedUnits \cup
    {ts.units_by_name[DivOfToken(ts, split_date_format(ts, last.args.date_format, <<>>)[i])
                        .name_of_unit_dividing_into] :
        i \in {j \in 1..Len(split_date_format(ts, last.args.date_format, <<>>)) :
                IsDivToken(ts, split_date_format(ts, last.args.date_format, <<>>)[j])}}

\* the size in base units of the smallest of them
SmallestSize ==
    CHOOSE m \in {UnitSize(u) : u \in CarriedUnits} :
        \A w \in CarriedUnits : DLe(m, UnitSize(w))

\* the last call was format_to_base, without a negative format, over an
\* original date that is not below zero, and it returned
ReadOverOriginal ==
    /\ last.op = "format_to_base"
    /\ last.ok
    /\ last.args.neg_date_format = None
    /\ ~DIsNeg(last.args.amount)
    /\ CarriedUnits # {}

\* C27: what format_to_base returns over an original date differs from what
\* it returns over the date 0 by the original date modulo the size of the
\* smallest unit the format refers to
CarryBelowSmallestUnit ==
    ReadOverOriginal =>
        \A zero \in {format_to_base(ts, last.args.text, last.args.date_format, Dec(0),
                                    None, last.args.one_based_units)} :
            /\ zero.ok
            /\ \A m \in {SmallestSize} :
                DIsZero(DSub(DSub(last.val.amount, zero.val), DMod(last.args.amount, m)))

\* -------------------------------------------------------------------------
\* The two revisions of base_to_format

\* the last call was base_to_format of either revision, of a date that is
\* not below zero and without a negative format, and it returned
DateWritten ==
    /\ last.op \in {"base_to_format", "time_system.base_to_format"}
    /\ last.ok
    /\ last.args.neg_date_format = None
    /\ ~DIsNeg(last.args.amount)

\* the ExactDivisions the format of the last call names
ReferencedDivs ==
    {ts.exact_divs_by_name[split_date_format(ts, last.args.date_format, <<>>)[i]] :
        i \in {j \in 1..Len(split_date_format(ts, last.args.date_format, <<>>)) :
                IsDivToken(ts, split_date_format(ts, last.args.date_format, <<>>)[j])}}

\* what the walks of the two revisions start from, and the offsets they go
\* through, for ExactDivision d and the date of the last call
WalkStart(d) ==
    DMod(last.args.amount,
         to_base(ts, ts.units_by_name[ts.exact_divs[d].name_of_unit_dividing], Dec(1)))

WalkedOffsets(d) == get_exact_div_offsets(ts, last.args.amount, ts.exact_divs[d].name)

\* the sum of the first n of the offsets
RECURSIVE CumulativeOffset(_, _)
CumulativeOffset(offsets, n) ==
    IF n = 0 THEN DZero ELSE DAdd(CumulativeOffset(offsets, n - 1), offsets[n])

\* the date of the last call lies exactly at the end of a subdivision of d
AtBoundaryOf(d) ==
    \E start \in {WalkStart(d)} : \E offsets \in {WalkedOffsets(d)} :
        \E n \in 1..Len(offsets) : DIsZero(DSub(start, CumulativeOffset(offsets, n)))

\* the subdivision each revision selects for d, 0 if it selects none
MainSelects(d) == WalkOffsets(WalkedOffsets(d), 1, WalkStart(d), DZero).i
TimeSystemSelects(d) == time_system_WalkOffsets(WalkedOffsets(d), 1, WalkStart(d), DZero).i

\* what each revision returns for the arguments of the last call
MainWrites ==
    base_to_format(ts, last.args.amount, last.args.date_format, None, last.args.one_based_units)

TimeSystemWrites ==
    time_system_base_to_format(ts, last.args.amount, last.args.date_format,
                               last.args.one_based_units)

\* C28: the two revisions return the same string, except exactly when the
\* date lies at the end of a subdivision of an ExactDivision the format
\* names, where they select adjacent subdivisions
RevisionsAgreeOffBoundaries ==
    DateWritten =>
        \A a \in {MainWrites} : \A b \in {TimeSystemWrites} :
            /\ a.ok /\ b.ok
            /\ (a.val = b.val) <=> ~(\E d \in ReferencedDivs : AtBoundaryOf(d))
            /\ \A d \in ReferencedDivs :
                AtBoundaryOf(d) =>
                    /\ MainSelects(d) >= 1
                    /\ TimeSystemSelects(d) = MainSelects(d) + 1

\* -------------------------------------------------------------------------
\* C29: after every compile() that returns, the working conversion factor
\* of every unit is above zero
WorkingFactorsPositive ==
    (last.op = "compile" /\ last.ok) =>
        \A u \in 1..Len(ts.units) : DLt(DZero, ts.working[u])

\* -------------------------------------------------------------------------
\* Reading back the text written for a date

\* the format names units only, the base unit among them, and a literal
\* stands between any two names
UnitOnlyFormat(t, format) ==
    LET split == split_date_format(t, format, <<>>)
    IN  /\ \A i \in 1..Len(split) : ~IsDivToken(t, split[i])
        /\ \E i \in 1..Len(split) :
            /\ split[i] \in DOMAIN t.units_by_name
            /\ t.units_by_name[split[i]] = t.base_unit
        /\ \A i \in 1..(Len(split) - 1) :
            ~(split[i] \in DOMAIN t.units_by_name /\ split[i + 1] \in DOMAIN t.units_by_name)

\* the last call was format_to_base of the text base_to_format wrote for a
\* date, with a format of units only
DateReadBack ==
    /\ last.op = "format_to_base"
    /\ last.from # NoArgs
    /\ last.from.text = <<>>
    /\ UnitOnlyFormat(ts, last.args.date_format)

\* C30: the text base_to_format writes for a whole date that is not below
\* zero, with a format that names units only and the base unit among them,
\* is read back by format_to_base to the same date
WrittenDateReadBack ==
    DateReadBack =>
        /\ last.ok
        /\ DIsZero(DSub(last.val.amount, last.from.amount))

====
